---- MODULE Spec2Model ----
(***************************************************************************)
(* Provider fallback of the create-image plugin (src/src/provider-manager.ts) *)
(* as a state machine: one ProviderManager, one GlobalConfig object, the   *)
(* health cache, and one generateWithFallback call at a time together with *)
(* the child process it spawns.                                            *)
(*                                                                         *)
(* Texts (error messages, process output) are sequences of tokens, so that *)
(* template strings are concatenations (\o) and JavaScript truthiness of a *)
(* string is non-emptiness.                                                *)
(***************************************************************************)
EXTENDS Integers, Sequences, FiniteSets, TLC

VARIABLES
    config,         \* the GlobalConfig object shared by all requests
    envProject,     \* process.env.GOOGLE_CLOUD_PROJECT
    healthCache,    \* ProviderManager.healthCache: name -> ProviderHealth
    now,            \* Date.now()
    pc,             \* position of the generateWithFallback call
    request,        \* the ImageGenerationRequest of the call
    fallbackChain,  \* the ProviderFallbackChain of the call (references into config.providers)
    pos,            \* 0: the primary is being tried, k > 0: fallbacks[k]
    result,         \* the local variable `result` of generateWithFallback
    proc,           \* the child process of the attempt in progress
    ret,            \* what the call returned (or the exception it threw)
    checked,        \* providers health-checked by the call, in order
    spawned,        \* arguments of the processes spawned by the call, in order
    settled,        \* results of the attempts settled by the call, in order
    live,           \* number of child processes spawned and not yet closed
    calls,          \* number of generateWithFallback calls started
    config0,        \* the configuration as it was constructed
    chainIn,        \* input of the buildFallbackChain check: request and config
    chainOut,       \* output of the buildFallbackChain check
    tasks,          \* the generateWithFallback calls that run interleaved
    healthOp,       \* the last operation on the health cache: arguments and return value
    single,         \* the generateSingleImage call in progress
    grid,           \* the generateStyleReferenceGrid call in progress
    comp,           \* a compositeToGrid call: its arguments and what it returned
    trial,          \* a tryProvider call and the child process it spawned
    style,          \* a template directory and the StyleReferenceManager call on it
    orch            \* the ImageOrchestrator, its loaders and the templates on disk

vars == <<config, envProject, healthCache, now, pc, request, fallbackChain, pos,
          result, proc, ret, checked, spawned, settled, live, calls, config0,
          chainIn, chainOut, tasks, healthOp, single, grid, comp, trial, style, orch>>

callVars == <<pc, request, fallbackChain, pos, result, proc, ret, checked, spawned,
              settled, live, calls>>
chainVars == <<chainIn, chainOut>>
unitVars == <<comp, trial>>
shellVars == <<style, orch>>
otherVars == <<tasks, healthOp, single, grid, comp, trial, style, orch>>

------------------------------------------------------------------------------
(* Bounds *)

MaxCalls == 2       \* generateWithFallback calls per behaviour
MaxPriority == 2    \* priorities are 1..MaxPriority

------------------------------------------------------------------------------
(* Values *)

Undefined == "undefined"        \* an absent optional field

healthCheckTTL == 300000

ProviderNames == {"gemini", "vertexai", "openrouter"}

\* provider order of discoverProvidersFromEnv
NameOrder == <<"gemini", "vertexai", "openrouter">>

DefaultModel(n) ==
    IF n = "openrouter" THEN "google/gemini-3-pro-image-preview"
    ELSE "gemini-3-pro-image-preview"

RequestModel == "request-model"

Truthy(s) == s # Undefined /\ s # ""

NoText == <<>>                  \* an absent or empty text

------------------------------------------------------------------------------
(* buildFallbackChain.  A chain holds references to the ProviderConfig     *)
(* objects of config.providers; a reference is the object's index there.   *)

Indices(ps) == [i \in 1..Len(ps) |-> i]

\* mutant: the enabled flag is not looked at
FilterEnabledAll(ps) == Indices(ps)

\* .filter(p => p.enabled)
FilterEnabled(ps) == SelectSeq(Indices(ps), LAMBDA i : ps[i].enabled)

\* mutant: an unstable sort, x goes before the elements it ties with
InsertByPriorityUnstable(s, x, ps) ==
    LET k == Cardinality({j \in 1..Len(s) : ps[s[j]].priority < ps[x].priority})
    IN  SubSeq(s, 1, k) \o <<x>> \o SubSeq(s, k + 1, Len(s))

\* one step of a stable sort: x goes behind every element that does not
\* compare greater than it
InsertByPriority(s, x, ps) ==
    LET k == Cardinality({j \in 1..Len(s) : ps[s[j]].priority <= ps[x].priority})
    IN  SubSeq(s, 1, k) \o <<x>> \o SubSeq(s, k + 1, Len(s))

RECURSIVE SortByPriority(_, _)
\* .sort((a, b) => a.priority - b.priority); Array.prototype.sort is stable
SortByPriority(s, ps) ==
    IF s = <<>> THEN <<>>
    ELSE InsertByPriority(SortByPriority(SubSeq(s, 1, Len(s) - 1), ps), s[Len(s)], ps)

\* enabledProviders.find(p => p.name === name): the first match, 0 for undefined
FindByName(s, ps, name) ==
    LET hits == {j \in 1..Len(s) : ps[s[j]].name = name}
    IN  IF hits = {} THEN 0
        ELSE s[CHOOSE j \in hits : \A h \in hits : j <= h]

\* mutant: the other providers are taken in descending priority order
FilterOthersReversed(s, ps, name) ==
    LET f == SelectSeq(s, LAMBDA i : ps[i].name # name)
    IN  [j \in 1..Len(f) |-> f[Len(f) + 1 - j]]

\* enabledProviders.filter(p => p.name !== name)
FilterOthers(s, ps, name) == SelectSeq(s, LAMBDA i : ps[i].name # name)

EnabledProviders(cfg) == SortByPriority(FilterEnabled(cfg.providers), cfg.providers)

\* mutant: the model of the request is dropped
OverrideModelDropped(cfg, i, req) == cfg

\* requestedProvider.model = request.model, on the object config.providers holds
OverrideModel(cfg, i, req) ==
    IF Truthy(req.model)
    THEN [cfg EXCEPT !.providers[i].model = req.model]
    ELSE cfg

\* the chain and the configuration object as buildFallbackChain leaves them
buildFallbackChain(req, cfg) ==
    LET ps == cfg.providers
        enabledProviders == EnabledProviders(cfg)
        requestedProvider ==
            IF Truthy(req.provider) THEN FindByName(enabledProviders, ps, req.provider)
            ELSE 0
        defaultProvider == FindByName(enabledProviders, ps, cfg.defaultProvider)
        primary ==
            IF defaultProvider # 0 THEN defaultProvider
            ELSE IF enabledProviders = <<>> THEN 0
            ELSE enabledProviders[1]
    IN  IF requestedProvider # 0
        THEN [chain  |-> [primary   |-> requestedProvider,
                          fallbacks |-> FilterOthers(enabledProviders, ps, req.provider)],
              config |-> OverrideModel(cfg, requestedProvider, req)]
        ELSE [chain  |-> [primary   |-> primary,
                          fallbacks |-> IF primary = 0 THEN <<>>
                                        ELSE FilterOthers(enabledProviders, ps,
                                                          ps[primary].name)],
              config |-> cfg]

------------------------------------------------------------------------------
(* checkHealth *)

\* mutant: the process-level project variable is not looked at
HealthErrorNoEnv(provider, env) ==
    IF provider.name = "vertexai"
    THEN IF ~Truthy(provider.project)
         THEN <<"GOOGLE_CLOUD_PROJECT not configured">>
         ELSE NoText
    ELSE IF ~Truthy(provider.apiKey)
         THEN <<"API key not configured">>
         ELSE NoText

\* lines 241-250: the error of the validation, none if the provider is valid
HealthError(provider, env) ==
    IF provider.name = "vertexai"
    THEN IF ~Truthy(provider.project) /\ ~Truthy(env)
         THEN <<"GOOGLE_CLOUD_PROJECT not configured">>
         ELSE NoText
    ELSE IF ~Truthy(provider.apiKey)
         THEN <<"API key not configured">>
         ELSE NoText

ComputeHealth(provider, t, env) ==
    [provider    |-> provider.name,
     healthy     |-> HealthError(provider, env) = NoText,
     lastChecked |-> t,
     error       |-> HealthError(provider, env)]

\* mutant: a record whose age is exactly the TTL still counts as fresh
CacheFreshInclusive(cache, name, t) ==
    /\ name \in DOMAIN cache
    /\ t - cache[name].lastChecked <= healthCheckTTL

\* cached && Date.now() - cached.lastChecked < this.healthCheckTTL, line 230
CacheFresh(cache, name, t) ==
    /\ name \in DOMAIN cache
    /\ t - cache[name].lastChecked < healthCheckTTL

CacheSet(cache, name, h) ==
    [n \in DOMAIN cache \cup {name} |-> IF n = name THEN h ELSE cache[n]]

\* the record checkHealth returns and the cache it leaves
checkHealth(provider, cache, t, env) ==
    IF CacheFresh(cache, provider.name, t)
    THEN [health |-> cache[provider.name], cache |-> cache]
    ELSE [health |-> ComputeHealth(provider, t, env),
          cache  |-> CacheSet(cache, provider.name, ComputeHealth(provider, t, env))]

------------------------------------------------------------------------------
(* Results of tryProvider and generateWithFallback *)

NoResult ==
    [success |-> FALSE, provider |-> Undefined, model |-> Undefined,
     error |-> NoText, fallbackUsed |-> Undefined]

\* lines 84-88
UnhealthyResult(provider, health) ==
    [NoResult EXCEPT !.error = <<"Provider ", provider.name, " is unhealthy: ">>
                                \o health.error,
                     !.provider = provider.name]

\* the 'close' event of a process that could not be spawned carries the
\* negated errno of the failure (ENOENT)
SpawnFailCode == -2

CodeText(code) == IF code = 0 THEN "0" ELSE IF code = 1 THEN "1" ELSE "-2"

\* mutant: output on stderr makes the attempt a failure
CloseResultStderrFails(provider, code, stdout, stderr) ==
    IF code = 0 /\ stderr = NoText
    THEN [NoResult EXCEPT !.success = TRUE, !.provider = provider.name,
                          !.model = provider.model]
    ELSE [NoResult EXCEPT !.provider = provider.name,
                          !.error = IF stderr # NoText THEN stderr
                                    ELSE IF stdout # NoText THEN stdout
                                    ELSE <<"Process exited with code ", CodeText(code)>>]

\* the 'close' handler, lines 160-175
CloseResult(provider, code, stdout, stderr) ==
    IF code = 0
    THEN [NoResult EXCEPT !.success = TRUE, !.provider = provider.name,
                          !.model = provider.model]
    ELSE [NoResult EXCEPT !.provider = provider.name,
                          !.error = IF stderr # NoText THEN stderr
                                    ELSE IF stdout # NoText THEN stdout
                                    ELSE <<"Process exited with code ", CodeText(code)>>]

\* the 'error' handler, lines 177-183
SpawnErrorResult(provider, message) ==
    [NoResult EXCEPT !.provider = provider.name,
                     !.error = <<"Failed to spawn process: ">> \o message]

AllFailedPrefix == <<"All providers failed. Last error: ">>

\* lines 66-69
AllFailedResult(r) == [NoResult EXCEPT !.error = AllFailedPrefix \o r.error]

\* mutant: the fallback result is returned as it is
MarkFallbackForgotten(r) == r

\* result.fallbackUsed = true, line 59
MarkFallback(r) == [r EXCEPT !.fallbackUsed = "true"]

\* mutant: the health record is not looked at
UnhealthyIgnored(health) == FALSE

\* if (!health.healthy), line 83
Unhealthy(health) == ~health.healthy

\* the --provider and --model arguments, lines 96-99
SpawnArgs(provider) ==
    [provider |-> provider.name,
     model    |-> IF Truthy(provider.model) THEN provider.model ELSE Undefined]

\* the provider object the chain refers to at position k
ChainIndex(chain, k) == IF k = 0 THEN chain.primary ELSE chain.fallbacks[k]

\* mutant: the fallbacks are tried whether or not autoFallback is set
HasNextIgnoresFlag(chain, autoFallback, k) ==
    \/ k = 0 /\ Len(chain.fallbacks) > 0
    \/ k > 0 /\ k < Len(chain.fallbacks)

\* does the loop of lines 51-63 have a provider to try after position k failed?
HasNext(chain, autoFallback, k) ==
    \/ k = 0 /\ autoFallback /\ Len(chain.fallbacks) > 0
    \/ k > 0 /\ k < Len(chain.fallbacks)

\* mutant: every successful result is marked as a fallback result
ContinueMarkAlways(r, k, chain, autoFallback) ==
    IF r.success
    THEN [pc |-> "done", pos |-> k, ret |-> MarkFallback(r)]
    ELSE IF HasNext(chain, autoFallback, k)
    THEN [pc |-> "attempt", pos |-> k + 1, ret |-> NoResult]
    ELSE [pc |-> "done", pos |-> k, ret |-> AllFailedResult(r)]

\* mutant: the loop over the fallbacks does not return on a success
ContinueNoStop(r, k, chain, autoFallback) ==
    IF r.success /\ (k = 0 \/ ~HasNext(chain, autoFallback, k))
    THEN [pc |-> "done", pos |-> k, ret |-> IF k = 0 THEN r ELSE MarkFallback(r)]
    ELSE IF HasNext(chain, autoFallback, k)
    THEN [pc |-> "attempt", pos |-> k + 1, ret |-> NoResult]
    ELSE [pc |-> "done", pos |-> k, ret |-> AllFailedResult(r)]

\* mutant: the results of the fallbacks are not assigned to `result`, so the
\* final error is the one `result` already held
ContinueStaleError(r, k, chain, autoFallback) ==
    IF r.success
    THEN [pc |-> "done", pos |-> k, ret |-> IF k = 0 THEN r ELSE MarkFallback(r)]
    ELSE IF HasNext(chain, autoFallback, k)
    THEN [pc |-> "attempt", pos |-> k + 1, ret |-> NoResult]
    ELSE [pc |-> "done", pos |-> k,
          ret |-> AllFailedResult(IF k = 0 THEN r ELSE result)]

\* mutant: after the last provider of the chain failed the call starts over
\* with the primary
ContinueStartsOver(r, k, chain, autoFallback) ==
    IF r.success
    THEN [pc |-> "done", pos |-> k, ret |-> IF k = 0 THEN r ELSE MarkFallback(r)]
    ELSE IF HasNext(chain, autoFallback, k)
    THEN [pc |-> "attempt", pos |-> k + 1, ret |-> NoResult]
    ELSE [pc |-> "attempt", pos |-> 0, ret |-> NoResult]

\* generateWithFallback after the attempt at position k settled with r:
\* where it goes, and what it returns if it returns
Continue(r, k, chain, autoFallback) ==
    IF r.success
    THEN [pc |-> "done", pos |-> k, ret |-> IF k = 0 THEN r ELSE MarkFallback(r)]
    ELSE IF HasNext(chain, autoFallback, k)
    THEN [pc |-> "attempt", pos |-> k + 1, ret |-> NoResult]
    ELSE [pc |-> "done", pos |-> k, ret |-> AllFailedResult(r)]

------------------------------------------------------------------------------
(* Inputs *)

ExitCodes == {0, 1}
EnvProjects == {"", "project"}

\* what the child process wrote by the time it closed
StdoutTexts(n) == {NoText, <<"stdout of ", n>>}
StderrTexts(n) == {NoText, <<"stderr of ", n>>}
SpawnMessages == {<<"spawn node ENOENT">>}

Requests ==
    [provider : {Undefined} \cup ProviderNames, model : {Undefined, RequestModel}]

\* a ProviderConfig; a ready one holds its credential as discoverProvidersFromEnv
\* sets it: the project for vertexai, the API key for the others
MakeProvider(n, pr, e, ready) ==
    [name     |-> n,
     apiKey   |-> IF n # "vertexai" /\ ready THEN "key" ELSE "",
     project  |-> IF n # "vertexai" THEN Undefined
                  ELSE IF ready THEN "project" ELSE "",
     model    |-> DefaultModel(n),
     priority |-> pr,
     enabled  |-> e]

\* The configurations of the fallback state machine: no provider at all, or
\* the three providers sorted by priority as mergeProviders leaves them, each
\* enabled and ready, enabled and without credential, or disabled (and ready).
Reverse(s) == [i \in 1..Len(s) |-> s[Len(s) + 1 - i]]

CallOrders == {NameOrder, Reverse(NameOrder)}

ProviderStates == {"ready", "unready", "disabled"}

CallProviderLists ==
    {<<>>} \cup
    {[i \in 1..3 |-> MakeProvider(order[i], i, st[i] # "disabled", st[i] # "unready")] :
        order \in CallOrders, st \in [1..3 -> ProviderStates]}

CallConfigs ==
    [providers : CallProviderLists, defaultProvider : {"gemini", "vertexai"},
     autoFallback : BOOLEAN]

------------------------------------------------------------------------------
(* Every specification below runs one part of the program; the variables   *)
(* of the other parts keep the values given here.                          *)

NoChain == [primary |-> 0, fallbacks |-> <<>>]
NoRequest == [provider |-> Undefined, model |-> Undefined]

NoHealth == [provider |-> Undefined, healthy |-> FALSE, lastChecked |-> 0, error |-> NoText]

NoProvider ==
    [name |-> Undefined, apiKey |-> "", project |-> Undefined, model |-> Undefined,
     priority |-> 0, enabled |-> FALSE]

Tasks == {1, 2}

NoTask ==
    [pc |-> "idle", request |-> NoRequest, chain |-> NoChain, pos |-> 0,
     health |-> NoHealth, result |-> NoResult, spawned |-> <<>>, ret |-> NoResult]

NoHealthOp ==
    [op |-> "none", arg |-> NoProvider, name |-> Undefined, found |-> FALSE,
     ret |-> NoHealth, list |-> <<>>, best |-> 0, before |-> <<>>, at |-> 0]

NoImageResult == [success |-> FALSE, imageBase64 |-> Undefined, error |-> NoText]

\* no generateSingleImage call: its options, its locals, the responses its
\* requests got, the backoff delays it slept, and its result
NoSingle ==
    [pc |-> "idle", apiKey |-> Undefined, attempt |-> 0, lastError |-> NoText,
     responses |-> <<>>, waits |-> <<>>, ret |-> NoImageResult]

\* a GenerationResult; `has` names the optional fields the object carries
NoGridResult ==
    [success |-> FALSE, has |-> {}, gridPath |-> NoText, individualPaths |-> <<>>,
     generatedCount |-> 0, failedCount |-> 0, errors |-> <<>>]

NoEnv == [GOOGLE_API_KEY |-> Undefined, GEMINI_API_KEY |-> Undefined]

\* no generateStyleReferenceGrid call: the environment, the file system (dirs,
\* files), the locals of the call, the log of what it did, the number of HTTP
\* requests issued on its behalf, and its result
NoGrid ==
    [pc |-> "idle", env |-> NoEnv, dirs |-> {}, files |-> {}, dirs0 |-> {}, files0 |-> {},
     i |-> 0, individualImages |-> <<>>, individualPaths |-> <<>>, errors |-> <<>>,
     generatedCount |-> 0, events |-> <<>>, outcomes |-> <<>>, written |-> <<>>,
     sharp |-> "none", requests |-> 0, ret |-> NoGridResult]

\* Buffer.alloc(0).  A Buffer is the text it was decoded from (data), or a
\* picture with an edge length in pixels that holds tiles.
EmptyBuffer == [kind |-> "empty", data |-> NoText, edge |-> 0, tiles |-> <<>>]

\* no compositeToGrid call: the build and the resolution asked for, the
\* array object the caller passes (the call pads it in place), its content
\* when the last call got it, how sharp behaved, whether composite was called
\* and with which inputs, the buffer returned by the last call and by the one
\* before, and the number of calls
NoComp ==
    [pc |-> "idle", build |-> "src", resolution |-> Undefined, images |-> <<>>,
     given |-> <<>>, sharp |-> "none", composited |-> FALSE, tiles |-> <<>>,
     buffer |-> EmptyBuffer, previous |-> EmptyBuffer, calls |-> 0]

\* no tryProvider call: the provider, its health record, what the child
\* process wrote, the exit code it closed with, whether 'error' was emitted,
\* the calls of resolve in order, how often the awaiting caller was resumed,
\* and what the call returned
NoAttempt ==
    [pc |-> "idle", provider |-> NoProvider, health |-> NoHealth, stdout |-> NoText,
     stderr |-> NoText, exits |-> <<>>, errored |-> FALSE, resolves |-> <<>>,
     resumed |-> 0, ret |-> NoResult]

\* no StyleReferenceManager call: the template directory (whether it and its
\* style-references directory exist, the entries of the latter, the content
\* of the .active-reference file or Undefined when there is none), the call
\* (operation, argument, marker before it), and what it returned or threw
NoStyle ==
    [pc |-> "idle", exists |-> FALSE, hasRefs |-> FALSE, refs |-> {}, marker |-> Undefined,
     op |-> "none", arg |-> NoText, before |-> Undefined, threw |-> NoText,
     ret |-> Undefined, list |-> {}, calls |-> 0]

\* an optional value: an absent one, or a sequence of one element
Absent == <<>>
Some(x) == <<x>>

\* a request to generateImage that names no template and no style grid
NoImageRequest ==
    [template |-> Absent, styleGridPath |-> Absent, provider |-> Undefined,
     model |-> Undefined]

\* An orchestrator that was constructed and not initialized.
\*   initialized: its config, templateLoader and providerManager are set
\*   env, file: process.env and what the configuration file says now
\*   cachedConfig: ConfigLoader.cachedConfig
\*   cacheTTL, cache: the TemplateLoader (cache: name -> template, loadedAt)
\*   disk: the templates on disk (name -> template)
\*   pending: the names not loaded since the last clearCache
\*   pc: "generating" while generateImage waits for generateWithFallback
\*   op, name, arg, at: the last call, its argument and its time
\*   before, healthBefore, started: the template cache, the health cache and
\*       the number of generateWithFallback calls it found
\*   reads, ret, req, res, msg, list: the directories it read, the template it
\*       loaded, the request it passed on and what it returned
\*   discarded, mark, afterClearing: the health cache thrown away by the last
\*       clearCaches or reloadConfig, the health checks made by then, and
\*       whether the last call made the first health checks after it
NoOrch ==
    [pc |-> "idle", initialized |-> FALSE, env |-> <<>>, cachedConfig |-> Absent,
     file |-> [autoFallback |-> TRUE, cacheTTL |-> Absent], cacheTTL |-> 0,
     cache |-> <<>>, disk |-> <<>>, pending |-> {}, op |-> "none", name |-> "",
     arg |-> NoImageRequest, at |-> 0, before |-> <<>>, healthBefore |-> <<>>,
     started |-> 0, reads |-> <<>>, ret |-> Absent, req |-> NoImageRequest,
     res |-> NoResult, msg |-> "", list |-> <<>>, discarded |-> <<>>,
     mark |-> <<0, 0>>, afterClearing |-> FALSE, afterClear |-> FALSE, calls |-> 0]

CallIdle ==
    /\ pc = "idle"
    /\ request = NoRequest
    /\ fallbackChain = NoChain
    /\ pos = 0
    /\ result = NoResult
    /\ proc = 0
    /\ ret = NoResult
    /\ checked = <<>>
    /\ spawned = <<>>
    /\ settled = <<>>
    /\ live = 0
    /\ calls = 0

ChainIdle ==
    /\ chainIn = [request |-> NoRequest, config |-> config]
    /\ chainOut = [built |-> FALSE, chain |-> NoChain, config |-> config]

RaceIdle == tasks = [t \in Tasks |-> NoTask]

HealthIdle == healthOp = NoHealthOp

NanoIdle == single = NoSingle /\ grid = NoGrid

UnitIdle == comp = NoComp /\ trial = NoAttempt

ShellIdle == style = NoStyle /\ orch = NoOrch

------------------------------------------------------------------------------
(* State machine of generateWithFallback *)

\* The process-level project variable is set or not; it is looked at only for
\* a vertexai provider without a project of its own, so it is left unset in
\* the configurations that have no such provider.  Date.now() stays within
\* one TTL window of the first health check: the configuration-readiness of
\* a provider does not change during a behaviour, so a recomputed health
\* record differs from the cached one in lastChecked only.
Init ==
    /\ config \in CallConfigs
    /\ config0 = config
    /\ envProject \in EnvProjects
    /\ envProject # "" =>
          \E i \in 1..Len(config.providers) :
              config.providers[i].name = "vertexai" /\ ~Truthy(config.providers[i].project)
    /\ healthCache = <<>>
    /\ now = 0
    /\ pc = "idle"
    /\ request = NoRequest
    /\ fallbackChain = NoChain
    /\ pos = 0
    /\ result = NoResult
    /\ proc = 0
    /\ ret = NoResult
    /\ checked = <<>>
    /\ spawned = <<>>
    /\ settled = <<>>
    /\ live = 0
    /\ calls = 0
    /\ chainIn = [request |-> NoRequest, config |-> config]
    /\ chainOut = [built |-> FALSE, chain |-> NoChain, config |-> config]
    /\ RaceIdle /\ HealthIdle /\ NanoIdle /\ UnitIdle /\ ShellIdle

\* the provider object the call is trying
Current == config.providers[ChainIndex(fallbackChain, pos)]

\* generateWithFallback(request, config) is called: lines 39-41.  Reading
\* primary.name of an empty chain throws a TypeError, which rejects the call.
Start(req, cfg) ==
    /\ pc \in {"idle", "done", "threw"}
    /\ calls < MaxCalls
    /\ LET b == buildFallbackChain(req, cfg)
       IN  /\ config' = b.config
           /\ fallbackChain' = b.chain
           /\ pc' = IF b.chain.primary = 0 THEN "threw" ELSE "attempt"
    /\ request' = req
    /\ calls' = calls + 1
    /\ pos' = 0
    /\ result' = NoResult
    /\ ret' = NoResult
    /\ checked' = <<>>
    /\ spawned' = <<>>
    /\ settled' = <<>>
    /\ UNCHANGED <<proc, live>>

\* a call with the configuration the manager's user holds
Call(req) ==
    /\ Start(req, config)
    /\ UNCHANGED <<envProject, healthCache, now, config0, chainVars, otherVars>>

\* what follows an attempt that settled with r
Settle(r) ==
    LET c == Continue(r, pos, fallbackChain, config.autoFallback)
    IN  /\ result' = r
        /\ settled' = Append(settled, r)
        /\ pc' = c.pc
        /\ pos' = c.pos
        /\ ret' = c.ret

\* tryProvider up to the spawn: lines 79-143
TryProvider ==
    /\ pc = "attempt"
    /\ LET h == checkHealth(Current, healthCache, now, envProject)
       IN  /\ healthCache' = h.cache
           /\ checked' = Append(checked, Current.name)
           /\ IF Unhealthy(h.health)
              THEN /\ Settle(UnhealthyResult(Current, h.health))
                   /\ UNCHANGED <<proc, spawned, live>>
              ELSE /\ proc' = ChainIndex(fallbackChain, pos)
                   /\ spawned' = Append(spawned, SpawnArgs(Current))
                   /\ live' = live + 1
                   /\ pc' = "running"
                   /\ UNCHANGED <<result, pos, ret, settled>>
    /\ UNCHANGED <<config, envProject, now, request, fallbackChain, calls, config0,
                   chainVars, otherVars>>

\* the child process closes: lines 160-175
Close(code) ==
    /\ pc = "running"
    /\ \E stdout \in StdoutTexts(Current.name), stderr \in StderrTexts(Current.name) :
          Settle(CloseResult(config.providers[proc], code, stdout, stderr))
    /\ proc' = 0
    /\ live' = live - 1
    /\ UNCHANGED <<config, envProject, healthCache, now, request, fallbackChain,
                   checked, spawned, calls, config0, chainVars, otherVars>>

\* the child process could not be spawned: lines 177-183
SpawnError(message) ==
    /\ pc = "running"
    /\ Settle(SpawnErrorResult(config.providers[proc], message))
    /\ proc' = 0
    /\ live' = live - 1
    /\ UNCHANGED <<config, envProject, healthCache, now, request, fallbackChain,
                   checked, spawned, calls, config0, chainVars, otherVars>>

Next ==
    \/ \E req \in Requests : Call(req)
    \/ TryProvider
    \/ \E code \in ExitCodes : Close(code)
    \/ \E message \in SpawnMessages : SpawnError(message)

Spec == Init /\ [][Next]_vars

------------------------------------------------------------------------------
(* buildFallbackChain on its own: any provider list with unique names, in  *)
(* any order, with any priorities and enabled flags.                       *)

ProviderConfigs(n) ==
    {MakeProvider(n, pr, e, TRUE) : pr \in 1..MaxPriority, e \in BOOLEAN}

AllProviderConfigs == UNION {ProviderConfigs(n) : n \in ProviderNames}

ProviderLists ==
    UNION {{ps \in [1..k -> AllProviderConfigs] :
                \A i, j \in 1..k : i # j => ps[i].name # ps[j].name} : k \in 0..3}

Configs ==
    [providers : ProviderLists, defaultProvider : ProviderNames, autoFallback : {TRUE}]

InitChain ==
    /\ chainIn \in [request : Requests, config : Configs]
    /\ chainOut = [built |-> FALSE, chain |-> NoChain, config |-> chainIn.config]
    /\ config = chainIn.config
    /\ config0 = config
    /\ envProject = ""
    /\ healthCache = <<>>
    /\ now = 0
    /\ pc = "idle"
    /\ request = NoRequest
    /\ fallbackChain = NoChain
    /\ pos = 0
    /\ result = NoResult
    /\ proc = 0
    /\ ret = NoResult
    /\ checked = <<>>
    /\ spawned = <<>>
    /\ settled = <<>>
    /\ live = 0
    /\ calls = 0
    /\ RaceIdle /\ HealthIdle /\ NanoIdle /\ UnitIdle /\ ShellIdle

BuildChain ==
    /\ ~chainOut.built
    /\ LET b == buildFallbackChain(chainIn.request, chainIn.config)
       IN  chainOut' = [built |-> TRUE, chain |-> b.chain, config |-> b.config]
    /\ UNCHANGED <<chainIn, config, envProject, healthCache, now, config0, callVars,
                   otherVars>>

NextChain == BuildChain

SpecChain == InitChain /\ [][NextChain]_vars

------------------------------------------------------------------------------
(* Vocabulary of the properties, stated on the configuration itself *)

Range(s) == {s[i] : i \in 1..Len(s)}

EnabledSet(ps) == {i \in 1..Len(ps) : ps[i].enabled}

\* i comes before j: lower priority number, list order on a tie
Before(ps, i, j) ==
    \/ ps[i].priority < ps[j].priority
    \/ ps[i].priority = ps[j].priority /\ i < j

\* configuration-ready: what the health check validates
ConfigReady(p) ==
    IF p.name = "vertexai"
    THEN (p.project # Undefined /\ p.project # "") \/ envProject # ""
    ELSE p.apiKey # Undefined /\ p.apiKey # ""

Names(s) == [j \in 1..Len(s) |-> config.providers[s[j]].name]

\* the providers of the call's chain, primary first
ChainNames ==
    IF fallbackChain.primary = 0 THEN <<>>
    ELSE <<config.providers[fallbackChain.primary].name>> \o Names(fallbackChain.fallbacks)

Prefix(s, t) == Len(s) <= Len(t) /\ s = SubSeq(t, 1, Len(s))

InCall == pc \in {"attempt", "running", "done"}

PrimarySucceeded == Len(settled) >= 1 /\ settled[1].success
PrimaryFailed == Len(settled) >= 1 /\ ~settled[1].success

------------------------------------------------------------------------------
(* C1: when the primary provider's attempt succeeds, generateWithFallback  *)
(* returns that attempt's result at once, with provider = the primary's    *)
(* name and fallbackUsed = false, and no fallback is health-checked or     *)
(* attempted.  As stated (fallbackUsed is the value false):                *)
C1_PrimarySuccessFallbackUsedFalse ==
    PrimarySucceeded =>
        /\ pc = "done"
        /\ ret = result /\ ret.success
        /\ ret.provider = ChainNames[1]
        /\ ret.fallbackUsed = "false"
        /\ checked = <<ChainNames[1]>>
        /\ Len(spawned) = 1 /\ spawned[1].provider = ChainNames[1]

(* C1 as amended: the same, except that the result carries no fallbackUsed *)
(* field at all (it is never set to true, and never set to false).         *)
C1_PrimarySuccessReturnsAtOnce ==
    PrimarySucceeded =>
        /\ pc = "done"
        /\ ret = result /\ ret.success
        /\ ret.provider = ChainNames[1]
        /\ ret.fallbackUsed = Undefined
        /\ checked = <<ChainNames[1]>>
        /\ Len(spawned) = 1 /\ spawned[1].provider = ChainNames[1]

\* the primary succeeded although an enabled, ready fallback was at hand
C1_Witness ==
    /\ PrimarySucceeded
    /\ config.autoFallback
    /\ Len(fallbackChain.fallbacks) = 2
    /\ \A i \in Range(fallbackChain.fallbacks) : ConfigReady(config.providers[i])

------------------------------------------------------------------------------
(* C2: when the primary attempt fails, autoFallback is enabled and the     *)
(* chain has a fallback, the fallbacks are attempted one at a time in      *)
(* chain order (an attempt starts only after the previous one is settled), *)
(* the call stops at the first fallback that succeeds and returns its      *)
(* result with fallbackUsed = true, and no provider after the first        *)
(* success is attempted.                                                   *)
C2_FallbacksInOrderUntilFirstSuccess ==
    /\ live <= 1
    /\ pc = "attempt" => live = 0
    /\ (InCall /\ PrimaryFailed /\ config.autoFallback
              /\ Len(fallbackChain.fallbacks) > 0) =>
          \* attempts follow the chain, none skipped, none repeated
          /\ Prefix(checked, ChainNames)
          /\ [j \in 1..Len(settled) |-> settled[j].provider] = SubSeq(checked, 1, Len(settled))
          /\ Len(checked) - Len(settled) = (IF pc = "running" THEN 1 ELSE 0)
          \* only the last settled attempt can be a success, and it ends the call
          /\ \A j \in 1..Len(settled) :
                settled[j].success => j = Len(settled) /\ pc = "done"
          /\ pc = "done" =>
                IF settled[Len(settled)].success
                THEN /\ ret.success
                     /\ ret.provider = checked[Len(checked)]
                     /\ ret.fallbackUsed = "true"
                     /\ ret = [result EXCEPT !.fallbackUsed = "true"]
                ELSE \* no success: every fallback was attempted
                     /\ ~ret.success
                     /\ checked = ChainNames

\* the second of two fallbacks succeeded after the primary and the first
\* fallback were executed and failed
C2_Witness ==
    /\ pc = "done"
    /\ Len(settled) = 3
    /\ settled[3].success
    /\ Len(spawned) = 3
    /\ ret.fallbackUsed = "true"

------------------------------------------------------------------------------
\* position in the chain (1 = the first fallback) of the first fallback that
\* is configuration-ready, 0 if there is none
NextHealthy ==
    LET f == fallbackChain.fallbacks
        ok == {k \in 1..Len(f) : ConfigReady(config.providers[f[k]])}
    IN  IF ok = {} THEN 0 ELSE CHOOSE k \in ok : \A h \in ok : k <= h

AtLeastTwoEnabled == Cardinality(EnabledSet(config.providers)) >= 2

(* C3: with at least two enabled providers and autoFallback enabled,       *)
(* whenever the primary's attempt fails the returned result has provider = *)
(* the next healthy provider in priority order and fallbackUsed = true.    *)
(* As stated:                                                              *)
C3_PrimaryFailureGivesNextHealthy ==
    (pc = "done" /\ AtLeastTwoEnabled /\ config.autoFallback /\ PrimaryFailed
        /\ NextHealthy # 0) =>
        /\ ret.provider = config.providers[fallbackChain.fallbacks[NextHealthy]].name
        /\ ret.fallbackUsed = "true"

(* C3 as amended: ... whenever the primary's attempt fails and the         *)
(* generation of the next healthy provider succeeds, the returned result   *)
(* has provider = that provider and fallbackUsed = true.                   *)
C3_NextHealthyThatSucceeds ==
    (pc = "done" /\ AtLeastTwoEnabled /\ config.autoFallback /\ PrimaryFailed
        /\ NextHealthy # 0
        /\ Len(settled) >= NextHealthy + 1 /\ settled[NextHealthy + 1].success) =>
        /\ ret.success
        /\ ret.provider = config.providers[fallbackChain.fallbacks[NextHealthy]].name
        /\ ret.fallbackUsed = "true"
        /\ Len(settled) = NextHealthy + 1

\* the primary was executed and failed, the first fallback is unhealthy, the
\* second one is healthy and succeeded
C3_Witness ==
    /\ pc = "done" /\ AtLeastTwoEnabled /\ config.autoFallback /\ PrimaryFailed
    /\ Len(spawned) = 2 /\ spawned[1].provider = ChainNames[1]
    /\ NextHealthy = 2
    /\ ret.success /\ ret.provider = ChainNames[3]

------------------------------------------------------------------------------
\* what the health check reported for a provider the call has checked
Reported(n) == healthCache[n]

\* every generation process the call has run to its end exited with code 0
ExecutedAllSucceeded ==
    \A j \in 1..Len(settled) :
        (\E i \in 1..Len(spawned) : spawned[i].provider = settled[j].provider)
            => settled[j].success

\* no process for a provider reported unhealthy; its attempt fails at once
\* with an error naming the provider and the health reason
C4_UnhealthyNeverExecuted ==
    /\ \A i \in 1..Len(spawned) : Reported(spawned[i].provider).healthy
    /\ \A j \in 1..Len(checked) :
          ~Reported(checked[j]).healthy =>
              /\ Len(settled) >= j
              /\ Reported(checked[j]).error # NoText
              /\ settled[j] = [NoResult EXCEPT
                                !.provider = checked[j],
                                !.error = <<"Provider ", checked[j], " is unhealthy: ">>
                                            \o Reported(checked[j]).error]

\* the call does not end at an unhealthy provider that has a successor
C4_ChainContinues ==
    \A j \in 1..Len(checked) :
        (~Reported(checked[j]).healthy /\ j < Len(ChainNames) /\ pc = "done")
            => Len(checked) > j

\* unhealthy primary, a healthy fallback, and generation succeeds
C4_UnhealthyPrimaryCase ==
    (/\ pc = "done"
     /\ ~Reported(checked[1]).healthy
     /\ NextHealthy # 0
     /\ ExecutedAllSucceeded) =>
        /\ ret.success
        /\ ret.provider = config.providers[fallbackChain.fallbacks[NextHealthy]].name
        /\ ret.fallbackUsed = "true"

(* C4: a provider whose health check reports unhealthy is never executed:  *)
(* no process is spawned for it, its attempt is an immediate failure whose *)
(* error names the provider and the health reason, and the chain continues *)
(* with the next provider; with an unhealthy primary and a healthy         *)
(* fallback that succeeds the result is success with provider = the        *)
(* fallback and fallbackUsed = true.  As stated:                           *)
C4_UnhealthySkippedChainContinues ==
    /\ C4_UnhealthyNeverExecuted
    /\ C4_ChainContinues
    /\ C4_UnhealthyPrimaryCase

(* C4 as amended: the same, with the continuation and the unhealthy-       *)
(* primary case holding when autoFallback is enabled.                      *)
C4_UnhealthySkippedWithAutoFallback ==
    /\ C4_UnhealthyNeverExecuted
    /\ config.autoFallback => C4_ChainContinues
    /\ config.autoFallback => C4_UnhealthyPrimaryCase

\* unhealthy primary, an unhealthy first fallback, and the second fallback
\* is the only process spawned and succeeds
C4_Witness ==
    /\ pc = "done"
    /\ Len(checked) = 3
    /\ ~Reported(checked[1]).healthy /\ ~Reported(checked[2]).healthy
    /\ spawned = <<[provider |-> checked[3], model |-> DefaultModel(checked[3])]>>
    /\ ret.success /\ ret.provider = checked[3] /\ ret.fallbackUsed = "true"

------------------------------------------------------------------------------
(* C5: when every provider in the chain fails, generateWithFallback        *)
(* returns success = false with an error that starts with the              *)
(* all-providers-failed prefix and carries the error message of the last   *)
(* provider attempted in chain order (the last fallback when fallbacks     *)
(* were tried), not that of the primary or of an earlier fallback.         *)
C5_TotalFailureCarriesLastError ==
    (pc = "done" /\ ~ret.success) =>
        LET last == settled[Len(settled)]
        IN  /\ \A j \in 1..Len(settled) : ~settled[j].success
            /\ ret.error = <<"All providers failed. Last error: ">> \o last.error
            /\ last.error # NoText
            /\ last.provider = checked[Len(checked)]
            /\ Len(settled) = Len(checked)
            /\ Prefix(checked, ChainNames)
            /\ Len(checked) > 1 => checked = ChainNames
            /\ ret.provider = Undefined /\ ret.fallbackUsed = Undefined

\* three providers were executed and failed with three different errors; the
\* result carries the third one
C5_Witness ==
    /\ pc = "done" /\ ~ret.success
    /\ Len(spawned) = 3
    /\ settled[1].error = <<"stdout of ", checked[1]>>
    /\ settled[2].error = <<"Process exited with code ", "1">>
    /\ settled[3].error = <<"stderr of ", checked[3]>>
    /\ ret.error = <<"All providers failed. Last error: ", "stderr of ", checked[3]>>

------------------------------------------------------------------------------
\* no enabled provider has a credential
NoCredential ==
    \A i \in EnabledSet(config.providers) : ~ConfigReady(config.providers[i])

ConfigurationReasons ==
    {<<"API key not configured">>, <<"GOOGLE_CLOUD_PROJECT not configured">>}

(* C6: when no enabled provider has a credential (also when no provider is *)
(* enabled at all), generateWithFallback returns a result with success =   *)
(* false and a configuration-error reason, and spawns no generation        *)
(* process.                                                                *)
C6_NoCredentialFailsFast ==
    (NoCredential /\ pc \in {"done", "threw"}) =>
        /\ pc = "done"
        /\ ~ret.success
        /\ \E reason \in ConfigurationReasons :
              SubSeq(ret.error, Len(ret.error), Len(ret.error)) = reason
        /\ spawned = <<>>

------------------------------------------------------------------------------
(* C7: for a request that names no provider, the chain holds every enabled *)
(* provider exactly once; the primary is the default provider if it is     *)
(* enabled, otherwise the enabled provider with the lowest priority        *)
(* number; the fallbacks are the other enabled providers in ascending      *)
(* priority, ties in list order; the primary is not among the fallbacks.   *)
C7_ChainOfUnnamedRequest ==
    (chainOut.built /\ ~Truthy(chainIn.request.provider)) =>
        LET ps == chainIn.config.providers
            en == EnabledSet(ps)
            c == chainOut.chain
            dflt == {i \in en : ps[i].name = chainIn.config.defaultProvider}
        IN  IF en = {} THEN c = NoChain
            ELSE /\ c.primary \in en
                 /\ Range(c.fallbacks) = en \ {c.primary}
                 /\ Len(c.fallbacks) = Cardinality(en) - 1
                 /\ IF dflt # {} THEN c.primary \in dflt
                    ELSE \A i \in en \ {c.primary} : Before(ps, c.primary, i)
                 /\ \A a, b \in 1..Len(c.fallbacks) :
                        a < b => Before(ps, c.fallbacks[a], c.fallbacks[b])

\* three enabled providers; the default has the highest priority number and
\* is the primary; the two fallbacks tie and keep their list order although
\* the list holds them in reverse discovery order
C7_Witness ==
    /\ chainOut.built /\ ~Truthy(chainIn.request.provider)
    /\ Len(chainIn.config.providers) = 3
    /\ [i \in 1..3 |-> chainIn.config.providers[i].name] = <<"openrouter", "gemini", "vertexai">>
    /\ chainIn.config.defaultProvider = "gemini"
    /\ [i \in 1..3 |-> chainIn.config.providers[i].priority] = <<1, 2, 1>>
    /\ \A i \in 1..3 : chainIn.config.providers[i].enabled
    /\ chainOut.chain = [primary |-> 2, fallbacks |-> <<1, 3>>]

------------------------------------------------------------------------------
\* the request of the call names a provider that is enabled
NamesEnabledProvider ==
    /\ InCall
    /\ request.provider # Undefined
    /\ \E i \in EnabledSet(config.providers) : config.providers[i].name = request.provider

(* C8: when the request names an enabled provider, that provider is the    *)
(* primary whatever its priority and whatever the default provider, its    *)
(* attempt is executed with the request's model when the request gives     *)
(* one, and all other enabled providers are the fallbacks in ascending     *)
(* priority.                                                               *)
C8_NamedProviderIsPrimary ==
    NamesEnabledProvider =>
        LET ps == config.providers
            en == EnabledSet(ps)
            c == fallbackChain
        IN  /\ c.primary \in en
            /\ ps[c.primary].name = request.provider
            /\ checked # <<>> => checked[1] = request.provider
            /\ request.model # Undefined =>
                  \A j \in 1..Len(spawned) :
                      spawned[j].provider = request.provider
                          => spawned[j].model = request.model
            /\ Range(c.fallbacks) = en \ {c.primary}
            /\ Len(c.fallbacks) = Cardinality(en) - 1
            /\ \A a, b \in 1..Len(c.fallbacks) :
                    a < b => Before(ps, c.fallbacks[a], c.fallbacks[b])

\* the first call names the provider with the highest priority number, which
\* is not the default, and gives a model: the process is started for that
\* provider with that model, and the two others are the fallbacks
C8_Witness ==
    /\ NamesEnabledProvider
    /\ calls = 1
    /\ request.provider # config.defaultProvider
    /\ request.model = RequestModel
    /\ config.providers[fallbackChain.primary].priority = 3
    /\ Len(fallbackChain.fallbacks) = 2
    /\ spawned = <<[provider |-> request.provider, model |-> RequestModel]>>

------------------------------------------------------------------------------
IsEnabledName(n) ==
    \E i \in EnabledSet(config.providers) : config.providers[i].name = n

(* C9: a provider with enabled = false is never health-checked or          *)
(* attempted by generateWithFallback, neither as primary nor as fallback,  *)
(* even when the request names it or it is the default provider; the       *)
(* primary is then chosen among the enabled providers.                     *)
C9_DisabledNeverUsed ==
    /\ \A j \in 1..Len(checked) : IsEnabledName(checked[j])
    /\ \A j \in 1..Len(spawned) : IsEnabledName(spawned[j].provider)
    /\ \A j \in 1..Len(settled) : IsEnabledName(settled[j].provider)
    /\ InCall =>
          /\ fallbackChain.primary \in EnabledSet(config.providers)
          /\ Range(fallbackChain.fallbacks) \subseteq EnabledSet(config.providers)

\* the request names a disabled provider, the default provider is another
\* disabled provider, and the call ran to its end on the remaining one
C9_Witness ==
    /\ pc = "done"
    /\ request.provider # Undefined /\ ~IsEnabledName(request.provider)
    /\ ~IsEnabledName(config.defaultProvider)
    /\ request.provider # config.defaultProvider
    /\ Len(spawned) = 1

------------------------------------------------------------------------------
(* C10: generateWithFallback leaves the global configuration unchanged:    *)
(* after any sequence of requests every ProviderConfig of config.providers *)
(* (its model included) and the order of config.providers are as they were *)
(* before, so a model override given in one request does not apply to a    *)
(* later request that gives no model.                                      *)
C10_ConfigUnchanged ==
    /\ config = config0
    /\ request.model = Undefined =>
          \A j \in 1..Len(spawned) : spawned[j].model = DefaultModel(spawned[j].provider)

------------------------------------------------------------------------------
(* Two generateWithFallback calls on one ProviderManager and one           *)
(* GlobalConfig, interleaved as the event loop allows: a call runs until   *)
(* it awaits.  generateWithFallback runs buildFallbackChain and the body   *)
(* of checkHealth before its first await (line 82, inside tryProvider);    *)
(* what follows the await (lines 83-143) runs in a later job, and so does  *)
(* what follows the settlement of an attempt (lines 46-63).                *)

TaskModel(t) == IF t = 1 THEN "model-1" ELSE "model-2"

RaceRequests(t) ==
    [provider : {Undefined, "gemini", "openrouter"}, model : {Undefined, TaskModel(t)}]

\* gemini and openrouter as discoverProvidersFromEnv lists them, gemini with
\* or without its key
RaceConfigs ==
    [providers : {<<MakeProvider("gemini", 1, TRUE, ready),
                    MakeProvider("openrouter", 3, TRUE, TRUE)>> : ready \in BOOLEAN},
     defaultProvider : {"gemini"},
     autoFallback : BOOLEAN]

InitRace ==
    /\ config \in RaceConfigs
    /\ config0 = config
    /\ envProject = ""
    /\ healthCache = <<>>
    /\ now = 0
    /\ CallIdle /\ ChainIdle /\ RaceIdle /\ HealthIdle /\ NanoIdle /\ UnitIdle /\ ShellIdle

\* the provider object task t is trying
TaskProvider(t) == config.providers[ChainIndex(tasks[t].chain, tasks[t].pos)]

raceFrame == <<envProject, now, config0, callVars, chainVars, healthOp, single, grid,
               unitVars, shellVars>>

\* lines 39-44 and 79-82: the chain is built, tryProvider is entered for
\* the primary and checkHealth runs; the call then awaits
RaceCall(t, req) ==
    /\ tasks[t].pc = "idle"
    /\ LET b == buildFallbackChain(req, config)
       IN  /\ config' = b.config
           /\ IF b.chain.primary = 0
              THEN /\ tasks' = [tasks EXCEPT ![t].pc = "threw", ![t].request = req]
                   /\ UNCHANGED healthCache
              ELSE LET h == checkHealth(b.config.providers[b.chain.primary],
                                        healthCache, now, envProject)
                   IN  /\ healthCache' = h.cache
                       /\ tasks' = [tasks EXCEPT ![t].pc = "checked",
                                                 ![t].request = req,
                                                 ![t].chain = b.chain,
                                                 ![t].health = h.health]
    /\ UNCHANGED raceFrame

\* lines 83-143, after the await: the unhealthy result, or the arguments are
\* read from the provider object and the process is spawned
RaceResume(t) ==
    /\ tasks[t].pc = "checked"
    /\ IF Unhealthy(tasks[t].health)
       THEN tasks' = [tasks EXCEPT
                        ![t].pc = "settled",
                        ![t].result = UnhealthyResult(TaskProvider(t), tasks[t].health)]
       ELSE tasks' = [tasks EXCEPT
                        ![t].pc = "running",
                        ![t].spawned = Append(@, SpawnArgs(TaskProvider(t)))]
    /\ UNCHANGED <<config, healthCache, raceFrame>>

\* the 'close' handler, lines 160-175
RaceClose(t, code) ==
    /\ tasks[t].pc = "running"
    /\ \E stderr \in StderrTexts(TaskProvider(t).name) :
          tasks' = [tasks EXCEPT
                      ![t].pc = "settled",
                      ![t].result = CloseResult(TaskProvider(t), code, NoText, stderr)]
    /\ UNCHANGED <<config, healthCache, raceFrame>>

\* the 'error' handler, lines 177-183
RaceSpawnError(t, message) ==
    /\ tasks[t].pc = "running"
    /\ tasks' = [tasks EXCEPT
                   ![t].pc = "settled",
                   ![t].result = SpawnErrorResult(TaskProvider(t), message)]
    /\ UNCHANGED <<config, healthCache, raceFrame>>

\* lines 46-69, after the attempt settled: the call returns, or enters
\* tryProvider for the next fallback, runs checkHealth and awaits
RaceContinue(t) ==
    /\ tasks[t].pc = "settled"
    /\ LET c == Continue(tasks[t].result, tasks[t].pos, tasks[t].chain, config.autoFallback)
       IN  IF c.pc = "done"
           THEN /\ tasks' = [tasks EXCEPT ![t].pc = "done", ![t].ret = c.ret]
                /\ UNCHANGED healthCache
           ELSE LET h == checkHealth(config.providers[ChainIndex(tasks[t].chain, c.pos)],
                                     healthCache, now, envProject)
                IN  /\ healthCache' = h.cache
                    /\ tasks' = [tasks EXCEPT ![t].pc = "checked",
                                              ![t].pos = c.pos,
                                              ![t].health = h.health]
    /\ UNCHANGED <<config, raceFrame>>

NextRace ==
    \/ \E t \in Tasks : \E req \in RaceRequests(t) : RaceCall(t, req)
    \/ \E t \in Tasks : RaceResume(t)
    \/ \E t \in Tasks : \E code \in ExitCodes : RaceClose(t, code)
    \/ \E t \in Tasks : \E message \in SpawnMessages : RaceSpawnError(t, message)
    \/ \E t \in Tasks : RaceContinue(t)

SpecRace == InitRace /\ [][NextRace]_vars

\* both calls were made, and they name the same provider with different
\* model overrides
SameProviderOtherModel ==
    /\ tasks[1].pc # "idle" /\ tasks[2].pc # "idle"
    /\ tasks[1].request.provider # Undefined
    /\ tasks[1].request.provider = tasks[2].request.provider
    /\ tasks[1].request.model # Undefined /\ tasks[2].request.model # Undefined
    /\ tasks[1].request.model # tasks[2].request.model

(* C11: when two generateWithFallback calls on the same ProviderManager    *)
(* and configuration run interleaved and both name the same provider with  *)
(* different model overrides, each call's generation process is started    *)
(* with the model of its own request.                                      *)
C11_EachCallStartsItsOwnModel ==
    SameProviderOtherModel =>
        \A t \in Tasks : \A j \in 1..Len(tasks[t].spawned) :
            tasks[t].spawned[j].provider = tasks[t].request.provider
                => tasks[t].spawned[j].model = tasks[t].request.model

------------------------------------------------------------------------------
(* The health cache over time: checkHealth, refreshHealth and              *)
(* clearHealthCache called on one ProviderManager at chosen instants.      *)
(* checkHealth is public and takes the ProviderConfig to validate, so two  *)
(* calls can pass provider objects of the same name with different         *)
(* credentials (two GlobalConfig objects, or a configuration edited        *)
(* between the calls).                                                     *)

\* the instants at which the operations are called: they give cached records
\* of age 1, TTL - 1, TTL, TTL + 1 and more
Instants ==
    {0, 1, healthCheckTTL - 1, healthCheckTTL, healthCheckTTL + 1, 2 * healthCheckTTL}

HealthNames == {"gemini", "vertexai"}

\* the provider objects passed to checkHealth
HealthProviders == {MakeProvider(n, 1, TRUE, ready) : n \in HealthNames, ready \in BOOLEAN}

\* the configuration passed to refreshHealth: it has no openrouter provider
HealthConfigs ==
    [providers : {<<MakeProvider("gemini", 1, TRUE, r1), MakeProvider("vertexai", 2, TRUE, r2)>> :
                     r1 \in BOOLEAN, r2 \in BOOLEAN},
     defaultProvider : {"gemini"},
     autoFallback : {TRUE}]

InitHealth ==
    /\ config \in HealthConfigs
    /\ config0 = config
    /\ envProject \in EnvProjects
    /\ healthCache = <<>>
    /\ now = 0
    /\ CallIdle /\ ChainIdle /\ RaceIdle /\ HealthIdle /\ NanoIdle /\ UnitIdle /\ ShellIdle

healthFrame == <<config, envProject, config0, callVars, chainVars, tasks, single, grid,
                 unitVars, shellVars>>

\* time passes
Tick(t) ==
    /\ t > now
    /\ now' = t
    /\ UNCHANGED <<healthCache, healthOp, healthFrame>>

\* checkHealth(provider), lines 227-259
CheckHealth(provider) ==
    /\ LET h == checkHealth(provider, healthCache, now, envProject)
       IN  /\ healthCache' = h.cache
           /\ healthOp' = [NoHealthOp EXCEPT !.op = "checkHealth", !.arg = provider,
                                             !.name = provider.name, !.found = TRUE,
                                             !.ret = h.health, !.before = healthCache,
                                             !.at = now]
    /\ UNCHANGED <<now, healthFrame>>

\* mutant: the cached record is not evicted
CacheDeleteSkipped(cache, name) == cache

\* this.healthCache.delete(providerName), line 271
CacheDelete(cache, name) == [n \in DOMAIN cache \ {name} |-> cache[n]]

\* the record refreshHealth returns (found = FALSE for null) and the cache it leaves
refreshHealth(name, cfg, cache, t, env) ==
    LET i == FindByName(Indices(cfg.providers), cfg.providers, name)
    IN  IF i = 0
        THEN [found |-> FALSE, provider |-> NoProvider, health |-> NoHealth, cache |-> cache]
        ELSE LET h == checkHealth(cfg.providers[i], CacheDelete(cache, name), t, env)
             IN  [found |-> TRUE, provider |-> cfg.providers[i], health |-> h.health,
                  cache |-> h.cache]

\* refreshHealth(providerName, config), lines 264-275
RefreshHealth(name) ==
    /\ LET r == refreshHealth(name, config, healthCache, now, envProject)
       IN  /\ healthCache' = r.cache
           /\ healthOp' = [NoHealthOp EXCEPT !.op = "refreshHealth", !.arg = r.provider,
                                             !.name = name, !.found = r.found,
                                             !.ret = r.health, !.before = healthCache,
                                             !.at = now]
    /\ UNCHANGED <<now, healthFrame>>

\* clearHealthCache(), lines 308-311
ClearHealthCache ==
    /\ healthCache' = <<>>
    /\ healthOp' = [NoHealthOp EXCEPT !.op = "clearHealthCache", !.before = healthCache,
                                      !.at = now]
    /\ UNCHANGED <<now, healthFrame>>

NextHealth ==
    \/ \E t \in Instants : Tick(t)
    \/ \E provider \in HealthProviders : CheckHealth(provider)
    \/ \E name \in ProviderNames : RefreshHealth(name)
    \/ ClearHealthCache

SpecHealth == InitHealth /\ [][NextHealth]_vars

\* when the last operation was called, the cache held a record for its
\* provider name younger than the TTL
HadYoungRecord ==
    /\ healthOp.name \in DOMAIN healthOp.before
    /\ healthOp.at - healthOp.before[healthOp.name].lastChecked < 300000

\* the last operation left the records of the other names as they were
OtherRecordsKept ==
    /\ DOMAIN healthCache = DOMAIN healthOp.before \cup {healthOp.name}
    /\ \A n \in DOMAIN healthOp.before \ {healthOp.name} :
          healthCache[n] = healthOp.before[n]

\* the returned record was computed by the last operation, from its provider
ReturnedFresh ==
    /\ healthOp.ret.provider = healthOp.name
    /\ healthOp.ret.lastChecked = healthOp.at
    /\ healthOp.ret.healthy <=> ConfigReady(healthOp.arg)
    /\ healthCache[healthOp.name] = healthOp.ret
    /\ OtherRecordsKept

(* C12: checkHealth returns the cached record for the provider's name      *)
(* unchanged (same healthy flag, error and lastChecked, no recomputation)  *)
(* whenever a cached record younger than 300000 ms exists; when no record  *)
(* exists or its age is 300000 ms or more it recomputes and overwrites the *)
(* cache with lastChecked = now; no record whose age has reached the TTL   *)
(* is ever returned.                                                       *)
C12_CachedWithinTTLOnly ==
    healthOp.op = "checkHealth" =>
        /\ IF HadYoungRecord
           THEN /\ healthOp.ret = healthOp.before[healthOp.name]
                /\ healthCache = healthOp.before
           ELSE ReturnedFresh
        /\ healthOp.at - healthOp.ret.lastChecked < 300000

\* a record of age TTL - 1 was returned although the provider passed would
\* now be validated differently
C12_Witness ==
    /\ healthOp.op = "checkHealth"
    /\ HadYoungRecord
    /\ healthOp.at - healthOp.ret.lastChecked = 299999
    /\ healthOp.ret.healthy # ConfigReady(healthOp.arg)

(* C13: refreshHealth(name) for a name present in config.providers always  *)
(* evicts the cached record and returns a freshly computed one             *)
(* (lastChecked = now) however young the cached record was; for a name not *)
(* present in config.providers it returns the not-found value and leaves   *)
(* the health cache unchanged.                                             *)
C13_RefreshAlwaysRecomputes ==
    healthOp.op = "refreshHealth" =>
        IF \E i \in 1..Len(config.providers) : config.providers[i].name = healthOp.name
        THEN /\ healthOp.found
             /\ healthOp.arg \in Range(config.providers)
             /\ healthOp.arg.name = healthOp.name
             /\ ReturnedFresh
        ELSE /\ ~healthOp.found
             /\ healthCache = healthOp.before

\* a record one millisecond old was evicted and the recomputed record
\* differs from it
C13_Witness ==
    /\ healthOp.op = "refreshHealth"
    /\ healthOp.found
    /\ HadYoungRecord
    /\ healthOp.at - healthOp.before[healthOp.name].lastChecked = 1
    /\ healthOp.ret.healthy # healthOp.before[healthOp.name].healthy

(* C14: for every call checkHealth(p), the returned record is healthy      *)
(* exactly when p is configuration-ready: for the provider named vertexai, *)
(* when p.project or the process-level project variable is set; for every  *)
(* other provider, if and only if p.apiKey is a non-empty string; an       *)
(* unhealthy record carries an error reason.  As stated:                   *)
C14_HealthyIffConfigurationReady ==
    healthOp.op = "checkHealth" =>
        /\ healthOp.ret.healthy <=> ConfigReady(healthOp.arg)
        /\ ~healthOp.ret.healthy => healthOp.ret.error # NoText

(* C14 as amended: for every call checkHealth(p) that computes the record  *)
(* (no cached record for p.name younger than the TTL exists), the returned *)
(* record is healthy exactly when p is configuration-ready; a call served  *)
(* from the cache returns the record of the earlier call whatever the      *)
(* credentials of p; an unhealthy record carries an error reason.          *)
C14_ComputedHealthyIffReady ==
    healthOp.op = "checkHealth" =>
        /\ ~HadYoungRecord =>
              /\ healthOp.ret.healthy <=> ConfigReady(healthOp.arg)
              /\ healthOp.arg.name = "vertexai" =>
                    (healthOp.ret.healthy <=>
                        (Truthy(healthOp.arg.project) \/ envProject # ""))
              /\ healthOp.arg.name # "vertexai" =>
                    (healthOp.ret.healthy <=> healthOp.arg.apiKey # "")
        /\ HadYoungRecord => healthOp.ret = healthOp.before[healthOp.name]
        /\ ~healthOp.ret.healthy => healthOp.ret.error # NoText
        /\ healthOp.ret.healthy => healthOp.ret.error = NoText

\* a vertexai provider without a project of its own was validated and found
\* healthy because the process-level project variable is set
C14_Witness ==
    /\ healthOp.op = "checkHealth"
    /\ ~HadYoungRecord
    /\ healthOp.arg.name = "vertexai"
    /\ ~Truthy(healthOp.arg.project)
    /\ healthOp.ret.healthy

------------------------------------------------------------------------------
(* getHealthStatus and selectBestProvider, on any provider list with       *)
(* unique names, in any order, with any priorities, enabled flags and      *)
(* credentials, and a health cache that is empty or holds a record for     *)
(* gemini.                                                                 *)

RECURSIVE HealthStatusUpTo(_, _, _, _, _)
\* the loop of lines 283-286 over the first k providers: the records pushed
\* and the cache it leaves
HealthStatusUpTo(ps, k, cache, t, env) ==
    IF k = 0 THEN [list |-> <<>>, cache |-> cache]
    ELSE LET prev == HealthStatusUpTo(ps, k - 1, cache, t, env)
             h == checkHealth(ps[k], prev.cache, t, env)
         IN  [list |-> Append(prev.list, h.health), cache |-> h.cache]

getHealthStatus(cfg, cache, t, env) ==
    HealthStatusUpTo(cfg.providers, Len(cfg.providers), cache, t, env)

\* mutant: the healthy flag is not looked at
HealthyOnlyAll(list) == list

\* .filter(h => h.healthy), line 297
HealthyOnly(list) == SelectSeq(list, LAMBDA h : h.healthy)

\* lines 295-302: the provider returned (0 for null), the records of
\* getHealthStatus and the cache it leaves
selectBestProvider(cfg, cache, t, env) ==
    LET ps == cfg.providers
        st == getHealthStatus(cfg, cache, t, env)
        healthy == HealthyOnly(st.list)
        found == [j \in 1..Len(healthy) |-> FindByName(Indices(ps), ps, healthy[j].provider)]
        enabled == SelectSeq(found, LAMBDA i : ps[i].enabled)
        healthyProviders == SortByPriority(enabled, ps)
    IN  [best  |-> IF Len(healthyProviders) > 0 THEN healthyProviders[1] ELSE 0,
         list  |-> st.list,
         cache |-> st.cache]

SelectProviderConfigs ==
    {MakeProvider(n, pr, e, ready) :
        n \in ProviderNames, pr \in 1..MaxPriority, e \in BOOLEAN, ready \in BOOLEAN}

SelectProviderLists ==
    UNION {{ps \in [1..k -> SelectProviderConfigs] :
                \A i, j \in 1..k : i # j => ps[i].name # ps[j].name} : k \in 0..3}

SelectConfigs ==
    [providers : SelectProviderLists, defaultProvider : {"gemini"}, autoFallback : {TRUE}]

\* the cache left by an earlier checkHealth of a gemini provider at time 0
SelectCaches ==
    {<<>>} \cup
    {[n \in {"gemini"} |-> ComputeHealth(MakeProvider("gemini", 1, TRUE, ready), 0, "")] :
        ready \in BOOLEAN}

InitSelect ==
    /\ config \in SelectConfigs
    /\ config0 = config
    /\ envProject = ""
    /\ healthCache \in SelectCaches
    /\ now \in {1, healthCheckTTL}
    /\ CallIdle /\ ChainIdle /\ RaceIdle /\ HealthIdle /\ NanoIdle /\ UnitIdle /\ ShellIdle

\* getHealthStatus(config), lines 280-289
GetHealthStatus ==
    /\ LET st == getHealthStatus(config, healthCache, now, envProject)
       IN  /\ healthCache' = st.cache
           /\ healthOp' = [NoHealthOp EXCEPT !.op = "getHealthStatus", !.list = st.list,
                                             !.before = healthCache, !.at = now]
    /\ UNCHANGED <<now, healthFrame>>

\* selectBestProvider(config), lines 294-303
SelectBestProvider ==
    /\ LET b == selectBestProvider(config, healthCache, now, envProject)
       IN  /\ healthCache' = b.cache
           /\ healthOp' = [NoHealthOp EXCEPT !.op = "selectBestProvider", !.list = b.list,
                                             !.best = b.best, !.found = b.best # 0,
                                             !.before = healthCache, !.at = now]
    /\ UNCHANGED <<now, healthFrame>>

NextSelect ==
    \/ GetHealthStatus
    \/ SelectBestProvider

SpecSelect == InitSelect /\ [][NextSelect]_vars

\* the providers that are enabled and for which checkHealth, as called by
\* the last operation, returned a healthy record
EnabledAndHealthy ==
    {i \in 1..Len(config.providers) :
        config.providers[i].enabled /\ healthOp.list[i].healthy}

(* C15: selectBestProvider returns the provider that is enabled, healthy   *)
(* according to checkHealth, and has the lowest priority number among such *)
(* providers (first in list order on a tie), and returns none exactly when *)
(* no provider is both enabled and healthy.                                *)
C15_BestIsEnabledHealthyLowestPriority ==
    healthOp.op = "selectBestProvider" =>
        /\ Len(healthOp.list) = Len(config.providers)
        /\ \A i \in 1..Len(config.providers) :
              /\ healthOp.list[i].provider = config.providers[i].name
              /\ healthOp.list[i] = healthCache[config.providers[i].name]
        /\ healthOp.best = 0 <=> EnabledAndHealthy = {}
        /\ healthOp.best # 0 =>
              /\ healthOp.best \in EnabledAndHealthy
              /\ \A i \in EnabledAndHealthy \ {healthOp.best} :
                    Before(config.providers, healthOp.best, i)

\* gemini has the lowest priority number, is enabled and has a key, but the
\* cached record checkHealth returns for it says unhealthy; the two other
\* providers tie, and the first of them in list order is returned
C15_Witness ==
    /\ healthOp.op = "selectBestProvider"
    /\ Len(config.providers) = 3
    /\ config.providers[1].name = "gemini" /\ config.providers[1].priority = 1
    /\ config.providers[1].enabled /\ config.providers[1].apiKey # ""
    /\ ~healthOp.list[1].healthy
    /\ config.providers[2].priority = 2 /\ config.providers[3].priority = 2
    /\ config.providers[2].name = "openrouter"
    /\ EnabledAndHealthy = {2, 3}
    /\ healthOp.best = 2

------------------------------------------------------------------------------
(* The style reference generator (src/src/nano-banana-generator.ts):       *)
(* generateStyleReferenceGrid and the generateSingleImage calls it makes.  *)

MAX_RETRIES == 3
RETRY_DELAY_MS == 2000
PacingDelay == 1500     \* sleep(1500), line 255

PROMPT_VARIATIONS == <<"kitchen line", "court layout", "rally", "coaching drill">>

IndexText(i) == <<"1", "2", "3", "4">>[i]

RECURSIVE Pow2(_)
Pow2(n) == IF n = 0 THEN 1 ELSE 2 * Pow2(n - 1)

\* mutant: the same delay before every retry
RetryDelayConstant(attempt) == RETRY_DELAY_MS

\* RETRY_DELAY_MS * Math.pow(2, attempt - 1), lines 114 and 134
RetryDelay(attempt) == RETRY_DELAY_MS * Pow2(attempt - 1)

\* The image returned for request `attempt` of variation v: every request
\* gets an image of its own.
ImageData(v, attempt) == <<"image ", IndexText(v), "/", IndexText(attempt)>>

\* What one fetch can give: it throws (network), or resolves to a response
\* that is not ok, or to an ok response whose body does not parse, or to an ok
\* response whose parsed body gives imageData by the optional chain of line
\* 124 (Undefined when a link of the chain is missing, "" for an empty payload).
Responses(v, attempt) ==
    {[kind |-> "network", status |-> "", text |-> <<"fetch failed">>, data |-> Undefined],
     [kind |-> "http", status |-> "500", text |-> <<"Internal error">>, data |-> Undefined],
     [kind |-> "malformed", status |-> "200", text |-> <<"Unexpected end of JSON input">>,
      data |-> Undefined],
     [kind |-> "json", status |-> "200", text |-> NoText, data |-> Undefined],
     [kind |-> "json", status |-> "200", text |-> NoText, data |-> ""],
     [kind |-> "json", status |-> "200", text |-> NoText, data |-> ImageData(v, attempt)]}

NoImageText == <<"No image data in response">>

\* a failed request, lines 111-117 and 131-139: sleep and retry while attempts
\* remain, otherwise return the failure with lastError
Retry(s, lastError) ==
    IF s.attempt < MAX_RETRIES
    THEN [s EXCEPT !.pc = "sleeping", !.lastError = lastError,
                   !.waits = Append(@, RetryDelay(s.attempt))]
    ELSE [s EXCEPT !.pc = "returned", !.lastError = lastError,
                   !.ret = [NoImageResult EXCEPT !.error = lastError]]

\* mutant: a response without image data fails the call without a reason
ContentErrorSilent(s) == [s EXCEPT !.pc = "returned", !.ret = NoImageResult]

\* mutant: a response without image data is retried like a failed request
ContentErrorRetried(s) == Retry(s, NoImageText)

\* lines 125-127
ContentError(s) ==
    [s EXCEPT !.pc = "returned", !.ret = [NoImageResult EXCEPT !.error = NoImageText]]

\* mutant: only a fetch that throws is caught
ThrownNetworkOnly(r) == r.kind = "network"

\* what the try block of lines 103-129 throws: the fetch of line 104 (a network
\* exception) or response.json() of line 120 (a body that does not parse)
Thrown(r) == r.kind = "network" \/ r.kind = "malformed"

\* the body of the loop of lines 102-137 once the fetch of line 104 has
\* resolved to, or thrown, r
AfterResponse(s, r) ==
    IF Thrown(r)
    THEN Retry(s, r.text)
    ELSE IF r.kind = "http"
    THEN Retry(s, <<"HTTP ", r.status, ": ">> \o r.text)
    ELSE IF ~Truthy(r.data)
    THEN ContentError(s)
    ELSE [s EXCEPT !.pc = "returned",
                   !.ret = [NoImageResult EXCEPT !.success = TRUE, !.imageBase64 = r.data]]

\* process.env.GOOGLE_API_KEY || process.env.GEMINI_API_KEY || null
getApiKey(env) ==
    IF Truthy(env.GOOGLE_API_KEY) THEN env.GOOGLE_API_KEY
    ELSE IF Truthy(env.GEMINI_API_KEY) THEN env.GEMINI_API_KEY
    ELSE Undefined

\* mutant: the missing key is not noticed
NoKeyIgnored(apiKey) == FALSE

\* if (!apiKey), line 216
NoKey(apiKey) == ~Truthy(apiKey)

OutputDir == "out"
BaseName == "ref"

\* path.join(outputDir, `${baseName}-${i + 1}.png`), i counted from 0
IndividualPath(i) == <<OutputDir, "/", BaseName, "-", IndexText(i + 1), ".png">>

\* path.join(outputDir, `${baseName}.png`)
GridPath == <<OutputDir, "/", BaseName, ".png">>

NoKeyText == <<"No API key. Set GOOGLE_API_KEY or GEMINI_API_KEY.">>

\* mutant: a pacing delay follows every invocation
PacingAfterAlways(i) == TRUE

\* if (i < PROMPT_VARIATIONS.length - 1) await sleep(1500), line 255
PacingAfter(i) == i < Len(PROMPT_VARIATIONS) - 1

\* mutant: the loop leaves out the last variation
ForContinuesShort(i) == i < Len(PROMPT_VARIATIONS) - 1

\* i < PROMPT_VARIATIONS.length, line 231
ForContinues(i) == i < Len(PROMPT_VARIATIONS)

IMAGE_SIZE == 512
GRID_GAP == 4
NativeEdge == 1024      \* imageSize: '1K', line 87

\* dist/style-reference-manager.js, lines 305-308
RESOLUTION_CONFIG ==
    [r \in {"2K", "4K"} |->
        IF r = "2K" THEN [tileSize |-> 1024, gap |-> 8] ELSE [tileSize |-> 2048, gap |-> 8]]

Builds == {"src", "dist"}

\* The tile size and the gap compositeToGrid works with: the constants
\* IMAGE_SIZE and GRID_GAP in src/src/nano-banana-generator.ts, the entry of
\* RESOLUTION_CONFIG for the resolution in the compiled build.
Geometry(build, resolution) ==
    IF build = "src" THEN [tileSize |-> IMAGE_SIZE, gap |-> GRID_GAP]
    ELSE RESOLUTION_CONFIG[resolution]

\* GRID_SIZE = IMAGE_SIZE * 2 + GRID_GAP; gridSize = tileSize * 2 + gap
GridSize(geo) == geo.tileSize * 2 + geo.gap

\* left: IMAGE_SIZE + GRID_GAP, top: IMAGE_SIZE + GRID_GAP
TileOffset(geo) == geo.tileSize + geo.gap

\* Buffer.from(result.imageBase64, 'base64'), line 242
BufferFrom(imageBase64) ==
    [kind |-> "image", data |-> imageBase64, edge |-> NativeEdge, tiles |-> <<>>]

\* How the sharp module behaves in a call: it cannot be imported; it works;
\* it cannot read the images it is given to resize; its composite throws.
SharpModes == {"missing", "ok", "unreadable", "throws"}

\* sharp(img).resize(...).png().toBuffer(), and img itself when that throws
\* (lines 151-153); an empty buffer holds nothing to resize
Resize(img, mode, tileSize) ==
    IF img.kind = "empty" \/ mode = "unreadable" THEN img
    ELSE [img EXCEPT !.edge = tileSize]

\* mutant: the fallback is the empty buffer
FirstOrEmptyAlwaysEmpty(images) == EmptyBuffer

\* images[0] || Buffer.alloc(0)
FirstOrEmpty(images) == IF images # <<>> THEN images[1] ELSE EmptyBuffer

RECURSIVE PadWithLast(_)
\* mutant: the list is padded with its last image
PadWithLast(images) ==
    IF Len(images) < 4
    THEN PadWithLast(Append(images, IF images # <<>> THEN images[Len(images)]
                                    ELSE EmptyBuffer))
    ELSE images

RECURSIVE Pad(_)
\* while (images.length < 4) images.push(images[0] || Buffer.alloc(0)), line 147
Pad(images) ==
    IF Len(images) < 4 THEN Pad(Append(images, FirstOrEmpty(images))) ELSE images

\* the argument of composite, lines 160-165
Tiles(resizedImages, geo) ==
    <<[input |-> resizedImages[1], left |-> 0, top |-> 0],
      [input |-> resizedImages[2], left |-> TileOffset(geo), top |-> 0],
      [input |-> resizedImages[3], left |-> 0, top |-> TileOffset(geo)],
      [input |-> resizedImages[4], left |-> TileOffset(geo), top |-> TileOffset(geo)]>>

\* composite throws when sharp does, and on an input that holds no image
CompositeThrows(tiles, mode) ==
    mode = "throws" \/ \E k \in 1..Len(tiles) : tiles[k].input.kind = "empty"

\* compositeToGrid, lines 142-173: the buffer it returns, the array it was
\* given as it leaves it, whether composite was called and with which tiles
compositeToGrid(images, mode, geo) ==
    IF mode = "missing"
    THEN [buffer |-> FirstOrEmpty(images), images |-> images, composited |-> FALSE,
          tiles |-> <<>>]
    ELSE LET padded == Pad(images)
             resizedImages == [k \in 1..4 |-> Resize(padded[k], mode, geo.tileSize)]
             tiles == Tiles(resizedImages, geo)
         IN  [buffer |-> IF CompositeThrows(tiles, mode) THEN FirstOrEmpty(padded)
                         ELSE [kind |-> "grid", data |-> NoText, edge |-> GridSize(geo),
                               tiles |-> tiles],
              images |-> padded, composited |-> TRUE, tiles |-> tiles]

\* a file of another name in the output directory
OtherPath == <<OutputDir, "/", "other.png">>

\* no key variable, an empty one, both set, and only the second one set
NanoEnvs ==
    {[GOOGLE_API_KEY |-> Undefined, GEMINI_API_KEY |-> Undefined],
     [GOOGLE_API_KEY |-> "", GEMINI_API_KEY |-> Undefined],
     [GOOGLE_API_KEY |-> "google-key", GEMINI_API_KEY |-> "gemini-key"],
     [GOOGLE_API_KEY |-> "", GEMINI_API_KEY |-> "gemini-key"]}

\* what an output directory that exists holds: the grid and the first image
\* of an earlier run, and a file of another name
EarlierFiles(d) == IF OutputDir \in d THEN {GridPath, IndividualPath(0), OtherPath} ELSE {}

\* the environment holds any combination of the two key variables, and the
\* output directory exists or not
InitNano ==
    /\ grid \in {[NoGrid EXCEPT !.env = env, !.dirs = d, !.dirs0 = d,
                                !.files = EarlierFiles(d), !.files0 = EarlierFiles(d)] :
                    env \in NanoEnvs, d \in {{}, {OutputDir}}}
    /\ single = NoSingle
    /\ config = [providers |-> <<>>, defaultProvider |-> "gemini", autoFallback |-> TRUE]
    /\ config0 = config
    /\ envProject = ""
    /\ healthCache = <<>>
    /\ now = 0
    /\ CallIdle /\ ChainIdle /\ RaceIdle /\ HealthIdle /\ UnitIdle /\ ShellIdle

nanoFrame == <<config, envProject, healthCache, now, config0, callVars, chainVars, tasks,
               healthOp, unitVars, shellVars>>

Event(e, n) == [e |-> e, n |-> n]

\* fs.writeFileSync(path, data), called when `at` events had happened
Written(path, data, at) == [path |-> path, data |-> data, at |-> at]

\* mutant: writing a file empties the directory first
AddFileAlone(files, path) == {path}

\* the files there are after writeFileSync(path, ...): a file of that name is
\* replaced, every other file stays
AddFile(files, path) == files \cup {path}

\* mutant: the files are numbered by the count of the images generated
PathIndexOrdinal(i, generatedCount) == generatedCount + 1

\* `${baseName}-${i + 1}.png`, line 245
PathIndex(i, generatedCount) == i + 1

\* mutant: one missing image fails the run
NothingGeneratedAnyMissing(images) == Len(images) < 4

\* the control of the for loop once the body for i is over: i++ and the test
AfterBody(g) ==
    [g EXCEPT !.i = g.i + 1,
              !.pc = IF ForContinues(g.i + 1) THEN "invoke" ELSE "compose"]

\* generateStyleReferenceGrid up to its first await, lines 215-229
Called(g) ==
    LET apiKey == getApiKey(g.env)
    IN  IF NoKey(apiKey)
        THEN [g EXCEPT !.pc = "done",
                       !.ret = [NoGridResult EXCEPT !.has = {"errors"},
                                                    !.errors = <<NoKeyText>>]]
        ELSE [g EXCEPT !.pc = IF ForContinues(0) THEN "invoke" ELSE "compose",
                       !.dirs = @ \cup {OutputDir}]

\* generateStyleReferenceGrid is called
GridCall ==
    /\ grid.pc = "idle"
    /\ grid' = Called(grid)
    /\ UNCHANGED <<single, nanoFrame>>

\* generateSingleImage is called for variation i + 1 and issues its first
\* request: lines 232-239 and 68-104
GridInvoke ==
    /\ grid.pc = "invoke"
    /\ grid' = [grid EXCEPT !.pc = "awaiting",
                            !.requests = @ + 1,
                            !.events = Append(@, Event("invoke", grid.i + 1))]
    /\ single' = [NoSingle EXCEPT !.pc = "fetch", !.attempt = 1,
                                  !.apiKey = getApiKey(grid.env)]
    /\ UNCHANGED nanoFrame

\* the fetch of the request in flight resolves or throws: lines 104-136
Respond ==
    /\ single.pc = "fetch"
    /\ \E r \in Responses(grid.i + 1, single.attempt) :
          single' = AfterResponse([single EXCEPT !.responses = Append(@, r)], r)
    /\ UNCHANGED <<grid, nanoFrame>>

\* the backoff sleep is over: the loop of line 102 goes to its next attempt
\* and issues the next request
Retried ==
    /\ single.pc = "sleeping"
    /\ single' = [single EXCEPT !.pc = "fetch", !.attempt = @ + 1]
    /\ grid' = [grid EXCEPT !.requests = @ + 1]
    /\ UNCHANGED nanoFrame

\* generateSingleImage has returned: lines 241-255
GridCollect ==
    /\ grid.pc = "awaiting"
    /\ single.pc = "returned"
    /\ LET image == single.ret
           buffer == BufferFrom(image.imageBase64)
           indPath == IndividualPath(PathIndex(grid.i, grid.generatedCount) - 1)
           collected ==
               IF image.success /\ Truthy(image.imageBase64)
               THEN [grid EXCEPT
                       !.individualImages = Append(@, buffer),
                       !.files = AddFile(@, indPath),
                       !.written = Append(@, Written(indPath, buffer, Len(grid.events))),
                       !.individualPaths = Append(@, indPath),
                       !.generatedCount = @ + 1]
               ELSE [grid EXCEPT
                       !.errors = Append(@, <<"Image ", IndexText(grid.i + 1), ": ">>
                                              \o image.error)]
           returned == [collected EXCEPT
                          !.events = Append(@, Event("return", grid.i + 1)),
                          !.outcomes = Append(@, image.success)]
       IN  IF PacingAfter(grid.i)
           THEN grid' = [returned EXCEPT !.pc = "pacing",
                                         !.events = Append(@, Event("sleep", PacingDelay))]
           ELSE grid' = AfterBody(returned)
    /\ single' = NoSingle
    /\ UNCHANGED nanoFrame

\* the pacing sleep is over
Paced ==
    /\ grid.pc = "pacing"
    /\ grid' = AfterBody(grid)
    /\ UNCHANGED <<single, nanoFrame>>

\* mutant: the images are counted in the array that compositeToGrid padded
CountGeneratedPadded(generatedCount, images) == Len(images)

\* generatedCount as lines 277-278 report it: the counter of line 248, not
\* the length of the array handed to compositeToGrid
CountGenerated(generatedCount, images) == generatedCount

\* mutant: the compositor is called whatever was generated
NothingGeneratedNever(images) == FALSE

\* if (individualImages.length === 0), line 258
NothingGenerated(images) == Len(images) = 0

\* lines 258-280: no image at all is a failure; otherwise the grid is
\* composited, written and reported.  compositeToGrid catches what sharp
\* throws, so the catch of lines 281-284 is reached only when writeFileSync
\* throws; the file system is taken to accept every write.
GridFinish ==
    /\ grid.pc = "compose"
    /\ IF NothingGenerated(grid.individualImages)
       THEN grid' = [grid EXCEPT
                       !.pc = "done",
                       !.ret = [NoGridResult EXCEPT
                                  !.has = {"generatedCount", "failedCount", "errors"},
                                  !.generatedCount = 0,
                                  !.failedCount = 4,
                                  !.errors = grid.errors]]
       ELSE \E mode \in SharpModes :
            LET c == compositeToGrid(grid.individualImages, mode,
                                     Geometry("src", Undefined))
            IN
            grid' = [grid EXCEPT
                       !.pc = "done",
                       !.sharp = mode,
                       !.individualImages = c.images,
                       !.files = AddFile(@, GridPath),
                       !.written = Append(@, Written(GridPath, c.buffer,
                                                     Len(grid.events))),
                       !.ret = [NoGridResult EXCEPT
                                  !.success = TRUE,
                                  !.has = {"gridPath", "individualPaths", "gridSizeKB",
                                           "generatedCount", "failedCount"}
                                          \cup (IF Len(grid.errors) > 0 THEN {"errors"}
                                                ELSE {}),
                                  !.gridPath = GridPath,
                                  !.individualPaths = grid.individualPaths,
                                  !.generatedCount =
                                      CountGenerated(grid.generatedCount, c.images),
                                  !.failedCount =
                                      4 - CountGenerated(grid.generatedCount, c.images),
                                  !.errors = grid.errors]]
    /\ UNCHANGED <<single, nanoFrame>>

NextNano ==
    \/ GridCall
    \/ GridInvoke
    \/ Respond
    \/ Retried
    \/ GridCollect
    \/ Paced
    \/ GridFinish

SpecNano == InitNano /\ [][NextNano]_vars

RECURSIVE Sum(_)
Sum(s) == IF s = <<>> THEN 0 ELSE s[1] + Sum(Tail(s))

\* a failed request: a network exception or a non-success HTTP status
FailedRequest(r) == r.kind = "network" \/ r.kind = "http"

\* the error text of a failed request
ErrorOf(r) == IF r.kind = "http" THEN <<"HTTP ", r.status, ": ">> \o r.text ELSE r.text

\* an ok response, parsed, without image payload
NoPayload(r) == r.kind = "json" /\ (r.data = Undefined \/ r.data = "")

(* C16: one generateSingleImage call issues at most 3 HTTP requests; after *)
(* the k-th failed request (non-success HTTP status or network exception)  *)
(* with k < 3 it waits 2000 * 2^(k-1) ms and retries, and after the third  *)
(* failure it returns failure with the third request's error text and      *)
(* without a further wait; hence the total backoff is 0, 2000 or 6000 ms   *)
(* when the first success is on request 1, 2 or 3, and a call that fails   *)
(* twice then succeeds returns the third request's image.                  *)
C16_ThreeRequestsExponentialBackoff ==
    single.pc # "idle" =>
        LET n == Len(single.responses)
        IN  /\ single.attempt <= 3
            /\ single.attempt = n + (IF single.pc = "fetch" THEN 1 ELSE 0)
            /\ Len(single.waits) <= 2
            /\ \A k \in 1..n :
                  FailedRequest(single.responses[k]) =>
                      IF k < 3
                      THEN /\ Len(single.waits) >= k
                           /\ single.waits[k] = (IF k = 1 THEN 2000 ELSE 4000)
                           /\ single.pc = "returned" => n > k
                      ELSE /\ single.pc = "returned"
                           /\ ~single.ret.success
                           /\ single.ret.error = ErrorOf(single.responses[3])
                           /\ Len(single.waits) = 2
            /\ (single.pc = "returned" /\ single.ret.success) =>
                  /\ Sum(single.waits) = (IF n = 1 THEN 0 ELSE IF n = 2 THEN 2000 ELSE 6000)
                  /\ single.ret.imageBase64 = single.responses[n].data
                  /\ \A k \in 1..(n - 1) : ~NoPayload(single.responses[k])

\* the call failed on an HTTP status, then on a network exception, and
\* returned the image of its third request after 2000 + 4000 ms of backoff
C16_Witness ==
    /\ single.pc = "returned"
    /\ Len(single.responses) = 3
    /\ single.responses[1].kind = "http"
    /\ single.responses[2].kind = "network"
    /\ single.ret.success
    /\ single.ret.imageBase64 = ImageData(grid.i + 1, 3)
    /\ single.waits = <<2000, 4000>>

(* C17: when a request of generateSingleImage gets a successful HTTP       *)
(* response that lacks an image payload in the first candidate's first     *)
(* content part, the call returns failure immediately on that attempt,     *)
(* whatever the attempt number: no further request is issued and no        *)
(* backoff delay is taken.                                                 *)
C17_NoPayloadReturnsAtOnce ==
    \A k \in 1..Len(single.responses) :
        NoPayload(single.responses[k]) =>
            /\ k = Len(single.responses)
            /\ single.attempt = k
            /\ single.pc = "returned"
            /\ ~single.ret.success
            /\ single.ret.error = <<"No image data in response">>
            /\ Len(single.waits) = k - 1

\* the second request, made after a failed first one, got an ok response
\* with an empty payload: the call is over, with the one backoff delay that
\* preceded the second request
C17_Witness ==
    /\ single.pc = "returned"
    /\ Len(single.responses) = 2
    /\ FailedRequest(single.responses[1])
    /\ single.responses[2].kind = "json" /\ single.responses[2].data = ""
    /\ single.waits = <<2000>>

\* neither key variable holds a non-empty value
NoCredentialConfigured ==
    /\ grid.env.GOOGLE_API_KEY \in {Undefined, ""}
    /\ grid.env.GEMINI_API_KEY \in {Undefined, ""}

(* C18: when no API credential is configured, generateStyleReferenceGrid   *)
(* returns success = false with a non-empty error list before anything     *)
(* else happens: no network request is issued, the output directory is not *)
(* created and no file is written.                                         *)
C18_NoCredentialNothingHappens ==
    (NoCredentialConfigured /\ grid.pc # "idle") =>
        /\ grid.pc = "done"
        /\ ~grid.ret.success
        /\ "errors" \in grid.ret.has
        /\ Len(grid.ret.errors) > 0
        /\ \A k \in 1..Len(grid.ret.errors) : grid.ret.errors[k] # NoText
        /\ grid.events = <<>>
        /\ single = NoSingle
        /\ grid.dirs = grid.dirs0
        /\ grid.files = grid.files0

\* the call returned with an empty GOOGLE_API_KEY and no GEMINI_API_KEY, and
\* the output directory, which did not exist, still does not
C18_Witness ==
    /\ grid.pc = "done"
    /\ grid.env.GOOGLE_API_KEY = "" /\ grid.env.GEMINI_API_KEY = Undefined
    /\ OutputDir \notin grid.dirs
    /\ ~grid.ret.success

\* what a complete run does, in order
ExpectedEvents ==
    <<Event("invoke", 1), Event("return", 1), Event("sleep", 1500),
      Event("invoke", 2), Event("return", 2), Event("sleep", 1500),
      Event("invoke", 3), Event("return", 3), Event("sleep", 1500),
      Event("invoke", 4), Event("return", 4)>>

LastEvent == grid.events[Len(grid.events)]

(* C19: once credentials are resolved, generateStyleReferenceGrid invokes  *)
(* the single-image generator for the four prompt variations in index      *)
(* order 1..4 and never concurrently: invocation i+1 starts only after     *)
(* invocation i has returned and a 1500 ms pacing delay has elapsed, the   *)
(* delay is taken after invocations 1, 2 and 3 whether they succeeded or   *)
(* failed, and no pacing delay follows invocation 4.                       *)
C19_SequentialWithPacing ==
    /\ Prefix(grid.events, ExpectedEvents)
    \* the generator runs only between its invocation and its return
    /\ single.pc # "idle" =>
          grid.pc = "awaiting" /\ LastEvent = Event("invoke", grid.i + 1)
    /\ grid.pc = "awaiting" => LastEvent = Event("invoke", grid.i + 1)
    \* the next invocation waits for the end of the pacing delay
    /\ grid.pc = "pacing" => LastEvent = Event("sleep", 1500) /\ single.pc = "idle"
    /\ grid.pc = "invoke" =>
          \/ grid.events = <<>>
          \/ LastEvent = Event("sleep", 1500)
    /\ (~NoCredentialConfigured /\ grid.pc \in {"compose", "done"}) =>
          grid.events = ExpectedEvents

\* a finished run in which the images 1 and 3 failed and the images 2 and 4
\* succeeded
C19_Witness ==
    /\ grid.pc = "done"
    /\ grid.events = ExpectedEvents
    /\ Len(grid.errors) = 2
    /\ grid.individualPaths = <<IndividualPath(1), IndividualPath(3)>>

\* the variations for which the generator was invoked
Invoked == {grid.events[k].n : k \in {j \in 1..Len(grid.events) : grid.events[j].e = "invoke"}}

(* C20: a failed image generation never aborts the sibling generations:    *)
(* once credentials are resolved, all four prompt variations are attempted *)
(* in every run, whichever of them fail and for whatever reason.           *)
C20_FailureDoesNotAbortSiblings ==
    (~NoCredentialConfigured /\ grid.pc \in {"compose", "done"}) =>
        /\ Invoked = 1..4
        /\ Len(grid.individualPaths) + Len(grid.errors) = 4
        /\ grid.generatedCount = Len(grid.individualPaths)

\* the first three images failed, on an HTTP status after three requests, on
\* a response without payload and on a network exception; the fourth was
\* attempted and succeeded
C20_Witness ==
    /\ grid.pc = "done"
    /\ grid.errors = <<<<"Image ", "1", ": ", "HTTP ", "500", ": ", "Internal error">>,
                       <<"Image ", "2", ": ", "No image data in response">>,
                       <<"Image ", "3", ": ", "fetch failed">>>>
    /\ grid.individualPaths = <<IndividualPath(3)>>
    /\ grid.ret.success

------------------------------------------------------------------------------
(* The result and the files of a generateStyleReferenceGrid run *)

\* how many of the generateSingleImage calls returned failure, and success
Failures == Cardinality({k \in 1..Len(grid.outcomes) : ~grid.outcomes[k]})
Successes == Cardinality({k \in 1..Len(grid.outcomes) : grid.outcomes[k]})

\* the run found a key and has returned
Finished == grid.pc = "done" /\ ~NoCredentialConfigured

C22_AllFailedNoGrid ==
    (Finished /\ Failures = 4) =>
        /\ ~grid.ret.success
        /\ grid.ret.has = {"generatedCount", "failedCount", "errors"}
        /\ grid.ret.generatedCount = 0
        /\ grid.ret.failedCount = 4
        /\ Len(grid.ret.errors) = 4
        /\ \A k \in 1..4 : grid.ret.errors[k] # NoText
        /\ grid.sharp = "none"
        /\ grid.written = <<>>
        /\ grid.files = grid.files0

\* all four image calls failed, each for a reason of its own kind, in a
\* directory that was created by the run
C22_Witness ==
    /\ Finished
    /\ grid.outcomes = <<FALSE, FALSE, FALSE, FALSE>>
    /\ grid.errors[1] = <<"Image ", "1", ": ", "No image data in response">>
    /\ grid.errors[4] = <<"Image ", "4", ": ", "HTTP ", "500", ": ", "Internal error">>
    /\ grid.dirs0 = {} /\ grid.dirs = {OutputDir}
    /\ grid.files = {}

SuccessIndices ==
    SelectSeq(<<1, 2, 3, 4>>, LAMBDA i : i <= Len(grid.outcomes) /\ grid.outcomes[i])

(* C24: the image of prompt variation i (1..4) is written to               *)
(* {outputDir}/{baseName}-{i}.png as soon as its generation succeeds,      *)
(* before variation i+1 is requested, and the grid is written to           *)
(* {outputDir}/{baseName}.png; individualPaths lists exactly the paths of  *)
(* the successful variations in ascending index order, so the file suffix  *)
(* is the variation index and not the ordinal of the success.              *)
C24_FilesNamedByVariationIndex ==
    LET idx == SuccessIndices
    IN  /\ grid.individualPaths =
              [k \in 1..Len(idx) |-> <<"out", "/", "ref", "-", IndexText(idx[k]), ".png">>]
        /\ Len(grid.written) >= Len(idx)
        /\ \A k \in 1..Len(idx) :
              /\ grid.written[k].path = grid.individualPaths[k]
              /\ grid.written[k].data = grid.individualImages[k]
              \* written once invocation idx[k] had returned its image, and
              \* before anything else happened
              /\ grid.events[grid.written[k].at] = Event("invoke", idx[k])
        /\ (grid.pc = "done" /\ grid.ret.success) =>
              /\ Len(grid.written) = Len(idx) + 1
              /\ grid.written[Len(idx) + 1].path = <<"out", "/", "ref", ".png">>
              /\ grid.written[Len(idx) + 1].at = Len(ExpectedEvents)
              /\ grid.ret.gridPath = <<"out", "/", "ref", ".png">>
              /\ grid.ret.individualPaths = grid.individualPaths

\* the images 2 and 3 were generated and the images 1 and 4 were not: the
\* files are ref-2.png and ref-3.png, and the grid
C24_Witness ==
    /\ grid.pc = "done"
    /\ grid.outcomes = <<FALSE, TRUE, TRUE, FALSE>>
    /\ grid.ret.individualPaths = <<<<"out", "/", "ref", "-", "2", ".png">>,
                                    <<"out", "/", "ref", "-", "3", ".png">>>>
    /\ Len(grid.written) = 3

------------------------------------------------------------------------------
(* compositeToGrid on its own: any list of up to MaxImages images, in the  *)
(* TypeScript source (fixed IMAGE_SIZE and GRID_GAP, the resolution asked  *)
(* for is not passed on) and in the compiled build (RESOLUTION_CONFIG).    *)

MaxImages == 5          \* longest array given to compositeToGrid
MaxComposites == 2      \* compositeToGrid calls per behaviour

Resolutions == {"2K", "4K"}

CompImages == {BufferFrom(ImageData(1, 1)), BufferFrom(ImageData(2, 1))}

ImageLists == UNION {[1..k -> CompImages] : k \in 0..MaxImages}

InitComposite ==
    /\ comp \in {[NoComp EXCEPT !.build = b, !.resolution = r, !.images = im] :
                    b \in Builds, r \in Resolutions, im \in ImageLists}
    /\ trial = NoAttempt
    /\ config = [providers |-> <<>>, defaultProvider |-> "gemini", autoFallback |-> TRUE]
    /\ config0 = config
    /\ envProject = ""
    /\ healthCache = <<>>
    /\ now = 0
    /\ CallIdle /\ ChainIdle /\ RaceIdle /\ HealthIdle /\ NanoIdle /\ ShellIdle

compFrame == <<config, envProject, healthCache, now, config0, callVars, chainVars, tasks,
               healthOp, single, grid, trial, shellVars>>

\* compositeToGrid is called on the array, and returns
Composite ==
    /\ comp.calls < MaxComposites
    /\ \E mode \in SharpModes :
          LET c == compositeToGrid(comp.images, mode, Geometry(comp.build, comp.resolution))
          IN  comp' = [comp EXCEPT !.pc = "returned",
                                   !.calls = @ + 1,
                                   !.given = comp.images,
                                   !.images = c.images,
                                   !.sharp = mode,
                                   !.composited = c.composited,
                                   !.tiles = c.tiles,
                                   !.previous = comp.buffer,
                                   !.buffer = c.buffer]
    /\ UNCHANGED compFrame

NextComposite == Composite

SpecComposite == InitComposite /\ [][NextComposite]_vars

\* the rectangles of two tiles of edge `tile` share no pixel
Disjoint(a, b, tile) ==
    \/ a.left + tile <= b.left \/ b.left + tile <= a.left
    \/ a.top + tile <= b.top \/ b.top + tile <= a.top

\* the layout of a grid for the given tile edge, gap and canvas edge
GridLayout(g, tile, gap, canvas) ==
    /\ g.edge = canvas
    /\ [k \in 1..4 |-> <<g.tiles[k].left, g.tiles[k].top>>] =
          <<<<0, 0>>, <<tile + gap, 0>>, <<0, tile + gap>>, <<tile + gap, tile + gap>>>>
    /\ \A k \in 1..4 :
          /\ g.tiles[k].left + tile <= canvas
          /\ g.tiles[k].top + tile <= canvas
          /\ comp.sharp = "ok" => g.tiles[k].input.edge = tile
    /\ \A j, k \in 1..4 : j # k => Disjoint(g.tiles[j], g.tiles[k], tile)
    /\ g.tiles[2].left - (g.tiles[1].left + tile) = gap
    /\ g.tiles[3].top - (g.tiles[1].top + tile) = gap

(* C25: the grid geometry follows the resolution: at 2K the tile edge is   *)
(* 1024 px, the gap 8 px and the canvas edge 2056 px; at 4K the tile edge  *)
(* is 2048 px, the gap 8 px and the canvas edge 4104 px; the four tiles    *)
(* are placed at (0,0), (tile+gap,0), (0,tile+gap) and (tile+gap,tile+gap),*)
(* so they lie inside the canvas, do not overlap and are separated by      *)
(* exactly the gap, and repeated compositing at the same resolution gives  *)
(* a canvas of the same dimensions.                                        *)
C25_GeometryFollowsResolution ==
    comp.buffer.kind = "grid" =>
        /\ IF comp.resolution = "2K"
           THEN GridLayout(comp.buffer, 1024, 8, 2056)
           ELSE GridLayout(comp.buffer, 2048, 8, 4104)
        /\ comp.previous.kind = "grid" => comp.previous.edge = comp.buffer.edge

\* what holds of both builds: the compiled build follows the resolution, the
\* TypeScript source composites 512 px tiles with a 4 px gap on 1028 px
CompositeGeometryPerBuild ==
    comp.buffer.kind = "grid" =>
        /\ IF comp.build = "src" THEN GridLayout(comp.buffer, 512, 4, 1028)
           ELSE IF comp.resolution = "2K" THEN GridLayout(comp.buffer, 1024, 8, 2056)
           ELSE GridLayout(comp.buffer, 2048, 8, 4104)
        /\ comp.previous.kind = "grid" => comp.previous.edge = comp.buffer.edge

\* the TypeScript source was asked for 2K and composited a canvas of 1028 px
CompositeSourceIgnoresResolution ==
    /\ comp.build = "src" /\ comp.resolution = "2K"
    /\ comp.buffer.kind = "grid" /\ comp.buffer.edge = 1028

\* the quadrants in reading order: the inputs of composite at (0,0),
\* (offset,0), (0,offset) and (offset,offset), as they were before resizing
Quadrants ==
    LET offset == TileOffset(Geometry(comp.build, comp.resolution))
        At(left, top) == CHOOSE k \in 1..Len(comp.tiles) :
                            comp.tiles[k].left = left /\ comp.tiles[k].top = top
        Unresized(b) == IF b.kind = "image" THEN [b EXCEPT !.edge = NativeEdge] ELSE b
    IN  [q \in 1..4 |->
            Unresized(comp.tiles[At(IF q \in {2, 4} THEN offset ELSE 0,
                                    IF q \in {3, 4} THEN offset ELSE 0)].input)]

(* C26: when compositeToGrid receives k images with 1 <= k <= 3, the four  *)
(* quadrants in reading order hold the k supplied images in their order    *)
(* followed by 4-k copies of the first supplied image; with 0 images every *)
(* quadrant holds the empty placeholder; the grid always has exactly four  *)
(* filled quadrants.                                                       *)
C26_PaddedWithFirstImage ==
    comp.composited =>
        LET k == Len(comp.given)
        IN  /\ Len(comp.tiles) = 4
            /\ k \in 1..3 =>
                  Quadrants = comp.given \o [j \in 1..(4 - k) |-> comp.given[1]]
            /\ k = 0 =>
                  \A q \in 1..4 : comp.tiles[q].input = EmptyBuffer
            /\ k >= 4 => Quadrants = SubSeq(comp.given, 1, 4)

\* two different images were given: the grid holds them in the top row and
\* the first one twice in the bottom row
C26_Witness ==
    /\ comp.calls = 1
    /\ Len(comp.given) = 2 /\ comp.given[1] # comp.given[2]
    /\ comp.buffer.kind = "grid"
    /\ comp.buffer.tiles[3].input.data = comp.given[1].data
    /\ comp.buffer.tiles[4].input.data = comp.given[1].data
    /\ comp.buffer.tiles[2].input.data = comp.given[2].data

------------------------------------------------------------------------------
(* tryProvider on its own (src/src/provider-manager.ts, lines 75-185): one *)
(* call, the child process it spawns, what the process writes and the      *)
(* events it emits.                                                        *)

MaxChunks == 2          \* 'data' events per stream

AttemptProviders == {MakeProvider(n, 1, TRUE, ready) : n \in ProviderNames, ready \in BOOLEAN}

\* the health cache before the call: empty, or a record of an earlier check
\* of a provider of that name, healthy or not
AttemptCaches(p) ==
    {<<>>} \cup
    {CacheSet(<<>>, p.name, ComputeHealth(MakeProvider(p.name, 1, TRUE, ready), 0, "")) :
        ready \in BOOLEAN}

InitAttempt ==
    /\ trial \in {[NoAttempt EXCEPT !.provider = p] : p \in AttemptProviders}
    /\ healthCache \in AttemptCaches(trial.provider)
    /\ config = [providers |-> <<trial.provider>>, defaultProvider |-> trial.provider.name,
                 autoFallback |-> TRUE]
    /\ config0 = config
    /\ envProject = ""
    /\ now = 0
    /\ comp = NoComp
    /\ CallIdle /\ ChainIdle /\ RaceIdle /\ HealthIdle /\ NanoIdle /\ ShellIdle

attemptFrame == <<config, envProject, now, config0, callVars, chainVars, tasks, healthOp,
                  single, grid, comp, shellVars>>

\* mutant: every call of resolve settles the promise anew
ResolveEvery(t, r) ==
    [t EXCEPT !.resolves = Append(@, r), !.resumed = @ + 1, !.ret = r]

\* resolve(r): the first call settles the promise of lines 123-184 and the
\* awaiting caller is resumed with r, a later call changes nothing
Resolve(t, r) ==
    [t EXCEPT !.resolves = Append(@, r),
              !.resumed = IF t.resolves = <<>> THEN 1 ELSE @,
              !.ret = IF t.resolves = <<>> THEN r ELSE @]

\* tryProvider is called: the health check of lines 82-89, then the spawn
TrialStart ==
    /\ trial.pc = "idle"
    /\ LET h == checkHealth(trial.provider, healthCache, now, envProject)
       IN  /\ healthCache' = h.cache
           /\ trial' = IF Unhealthy(h.health)
                       THEN [trial EXCEPT !.pc = "returned", !.health = h.health,
                                          !.ret = UnhealthyResult(trial.provider, h.health)]
                       ELSE [trial EXCEPT !.pc = "running", !.health = h.health]
    /\ UNCHANGED attemptFrame

\* 'data' on stdout, lines 147-151.  The handlers of both streams stay
\* registered until 'close', whether or not the promise is settled.
TrialStdout ==
    /\ trial.pc = "running"
    /\ Len(trial.stdout) < MaxChunks
    /\ trial' = [trial EXCEPT !.stdout = Append(@, "out")]
    /\ UNCHANGED <<healthCache, attemptFrame>>

\* 'data' on stderr, lines 153-157
TrialStderr ==
    /\ trial.pc = "running"
    /\ Len(trial.stderr) < MaxChunks
    /\ trial' = [trial EXCEPT !.stderr = Append(@, "err")]
    /\ UNCHANGED <<healthCache, attemptFrame>>

\* 'error': the process could not be spawned, lines 177-183
TrialError(message) ==
    /\ trial.pc = "running" /\ ~trial.errored
    /\ trial.stdout = NoText /\ trial.stderr = NoText
    /\ trial' = Resolve([trial EXCEPT !.errored = TRUE],
                        SpawnErrorResult(trial.provider, message))
    /\ UNCHANGED <<healthCache, attemptFrame>>

\* 'close': the process has ended and its streams are closed, lines 160-175;
\* it follows a failed spawn too
TrialClose(code) ==
    /\ trial.pc = "running"
    /\ trial.errored <=> code = SpawnFailCode
    /\ trial' = Resolve([trial EXCEPT !.pc = "closed", !.exits = <<code>>],
                        CloseResult(trial.provider, code, trial.stdout, trial.stderr))
    /\ UNCHANGED <<healthCache, attemptFrame>>

NextAttempt ==
    \/ TrialStart
    \/ TrialStdout
    \/ TrialStderr
    \/ \E message \in SpawnMessages : TrialError(message)
    \/ \E code \in ExitCodes \cup {SpawnFailCode} : TrialClose(code)

SpecAttempt == InitAttempt /\ [][NextAttempt]_vars

\* the process was spawned, ran and has exited
Exited == trial.pc = "closed" /\ ~trial.errored

(* C29: a provider attempt that was executed succeeds if and only if the   *)
(* generation process exits with code 0; on a non-zero exit the attempt    *)
(* fails with error text equal to the captured stderr if it is non-empty,  *)
(* otherwise the captured stdout if it is non-empty, otherwise a message   *)
(* naming the exit code; output captured on stderr does not turn an exit   *)
(* code 0 into a failure.                                                  *)
C29_SuccessIffExitCodeZero ==
    /\ (trial.pc = "running" /\ ~trial.errored) => trial.ret = NoResult
    /\ Exited =>
          /\ trial.ret.success <=> trial.exits[1] = 0
          /\ trial.exits[1] = 0 => trial.ret.error = NoText
          /\ trial.exits[1] # 0 =>
                trial.ret.error =
                    (IF Len(trial.stderr) > 0 THEN trial.stderr
                     ELSE IF Len(trial.stdout) > 0 THEN trial.stdout
                     ELSE <<"Process exited with code ", "1">>)
          /\ trial.ret.provider = trial.provider.name

\* the process wrote to stderr and to stdout and exited with code 0: the
\* attempt succeeded
C29_Witness ==
    /\ Exited
    /\ trial.exits = <<0>>
    /\ trial.stderr = <<"err", "err">> /\ trial.stdout = <<"out">>
    /\ trial.ret.success

------------------------------------------------------------------------------
------------------------------------------------------------------------------
(* discoverProvidersFromEnv (config-loader, src/unnamed/part_002, lines    *)
(* 185-221): the providers whose variables are set, in this order.         *)

discoverProvidersFromEnv(env) ==
    (IF Truthy(env.GOOGLE_API_KEY)
     THEN <<[name |-> "gemini", apiKey |-> env.GOOGLE_API_KEY, project |-> Undefined,
             model |-> "gemini-3-pro-image-preview", priority |-> 1, enabled |-> TRUE]>>
     ELSE <<>>)
    \o
    (IF Truthy(env.GOOGLE_CLOUD_PROJECT)
     THEN <<[name |-> "vertexai", apiKey |-> "", project |-> env.GOOGLE_CLOUD_PROJECT,
             model |-> "gemini-3-pro-image-preview", priority |-> 2, enabled |-> TRUE]>>
     ELSE <<>>)
    \o
    (IF Truthy(env.OPENROUTER_API_KEY)
     THEN <<[name |-> "openrouter", apiKey |-> env.OPENROUTER_API_KEY, project |-> Undefined,
             model |-> "google/gemini-3-pro-image-preview", priority |-> 3,
             enabled |-> TRUE]>>
     ELSE <<>>)

\* an environment in which the variables of all three providers are set
FullEnv ==
    [GOOGLE_API_KEY |-> "key", GOOGLE_CLOUD_PROJECT |-> "project",
     OPENROUTER_API_KEY |-> "key"]

\* the three providers were discovered, gemini is the default provider,
\* autoFallback is enabled, and the call in progress names no provider
DiscoveredDefaults ==
    /\ config0.providers = discoverProvidersFromEnv(FullEnv)
    /\ config0.defaultProvider = "gemini"
    /\ config0.autoFallback
    /\ InCall
    /\ ~Truthy(request.provider)

------------------------------------------------------------------------------
\* the call has nothing to fall back on: line 50 is false
NoFallbackAllowed == ~config.autoFallback \/ Len(fallbackChain.fallbacks) = 0

(* C31: when autoFallback is disabled, or the chain has no fallback,       *)
(* generateWithFallback attempts exactly one provider (the primary): on    *)
(* its failure no other provider is health-checked or attempted and the    *)
(* result is a failure carrying the primary's error message.               *)
C31_NoFallbackOnlyPrimary ==
    (InCall /\ NoFallbackAllowed) =>
        /\ Prefix(checked, <<ChainNames[1]>>)
        /\ Len(spawned) <= 1
        /\ \A j \in 1..Len(spawned) : spawned[j].provider = ChainNames[1]
        /\ pc = "done" =>
              /\ checked = <<ChainNames[1]>>
              /\ Len(settled) = 1
              /\ settled[1].provider = ChainNames[1]
              /\ ~settled[1].success =>
                    /\ ~ret.success
                    /\ settled[1].error # NoText
                    /\ ret.error = AllFailedPrefix \o settled[1].error

\* autoFallback is disabled, the primary was executed and failed while two
\* ready fallbacks were in the chain, and the call returned
C31_Witness ==
    /\ pc = "done"
    /\ ~config.autoFallback
    /\ Len(fallbackChain.fallbacks) = 2
    /\ \A i \in Range(fallbackChain.fallbacks) : ConfigReady(config.providers[i])
    /\ Len(spawned) = 1
    /\ ~ret.success
    /\ ret.error = AllFailedPrefix \o <<"stderr of ", ChainNames[1]>>

------------------------------------------------------------------------------
(* C34: in every result of generateStyleReferenceGrid that carries counts, *)
(* generatedCount + failedCount = 4 and generatedCount equals              *)
(* individualPaths.length (0 when the list is absent); these values count  *)
(* the images actually generated and are not changed by the padding that   *)
(* compositeToGrid applies to the image list it receives.                  *)
C34_CountsAddUpToFour ==
    (grid.pc = "done" /\ "generatedCount" \in grid.ret.has) =>
        /\ "failedCount" \in grid.ret.has
        /\ grid.ret.generatedCount + grid.ret.failedCount = 4
        /\ grid.ret.generatedCount =
              (IF "individualPaths" \in grid.ret.has THEN Len(grid.ret.individualPaths)
               ELSE 0)
        /\ grid.ret.generatedCount = Successes
        /\ grid.ret.failedCount = Failures

\* two images were generated and compositeToGrid padded the array it was
\* given to four: the result counts two generated and two failed
C34_Witness ==
    /\ grid.pc = "done"
    /\ grid.sharp = "ok"
    /\ Len(grid.individualImages) = 4
    /\ grid.ret.generatedCount = 2 /\ grid.ret.failedCount = 2
    /\ Len(grid.ret.individualPaths) = 2

------------------------------------------------------------------------------
\* request k of the call got an ok response whose body could not be read
Malformed(k) == single.responses[k].kind = "malformed"

(* C37: in generateSingleImage an exception raised while reading or        *)
(* parsing the body of a successful HTTP response is handled like a        *)
(* network exception: it is retried with the same backoff while attempts   *)
(* remain, and on the third attempt the call returns failure with that     *)
(* exception's message; only a parsed body without image data ends the     *)
(* call without retry.                                                     *)
C37_UnreadableBodyRetried ==
    single.pc # "idle" =>
        LET n == Len(single.responses)
        IN  /\ \A k \in 1..n :
                  Malformed(k) =>
                      IF k < MAX_RETRIES
                      THEN /\ Len(single.waits) >= k
                           /\ single.waits[k] = RETRY_DELAY_MS * (IF k = 1 THEN 1 ELSE 2)
                           /\ single.pc = "returned" => n > k
                      ELSE /\ single.pc = "returned"
                           /\ ~single.ret.success
                           /\ single.ret.error = single.responses[k].text
                           /\ Len(single.waits) = 2
            \* a failed call that made fewer than three requests ended on a
            \* parsed body without image data
            /\ (single.pc = "returned" /\ ~single.ret.success /\ n < MAX_RETRIES) =>
                  NoPayload(single.responses[n])

\* three bodies in a row could not be parsed: the call waited 2000 and 4000
\* ms and returned the message of the third exception
C37_Witness ==
    /\ single.pc = "returned"
    /\ Len(single.responses) = 3
    /\ \A k \in 1..3 : Malformed(k)
    /\ single.waits = <<2000, 4000>>
    /\ ~single.ret.success
    /\ single.ret.error = <<"Unexpected end of JSON input">>

------------------------------------------------------------------------------
\* what the handlers of 'error' and 'close' passed to resolve, in the order
\* of the events
Settlements ==
    (IF trial.errored
     THEN <<SpawnErrorResult(trial.provider, <<"spawn node ENOENT">>)>> ELSE <<>>)
    \o
    (IF trial.pc = "closed"
     THEN <<CloseResult(trial.provider, trial.exits[1], trial.stdout, trial.stderr)>>
     ELSE <<>>)

(* C35: the result of one provider attempt is settled exactly once, by the *)
(* first of the child process's 'close' and 'error' events: an event that  *)
(* arrives after the attempt is settled changes neither the returned       *)
(* result nor the provider sequence, and output data arriving after        *)
(* settlement is not part of the returned error text.                      *)
C35_SettledOnceByFirstEvent ==
    trial.pc \in {"running", "closed"} =>
        /\ trial.resolves = Settlements
        /\ trial.resumed = (IF Settlements = <<>> THEN 0 ELSE 1)
        /\ Settlements # <<>> => trial.ret = Settlements[1]
        /\ Settlements = <<>> => trial.ret = NoResult
        /\ trial.errored =>
              \A k \in 1..Len(trial.ret.error) : trial.ret.error[k] \notin {"out", "err"}

\* the spawn failed: 'error' settled the attempt, then data and 'close' with
\* the code of the failed spawn arrived, and the result is still that of the
\* 'error' event
C35_Witness ==
    /\ trial.pc = "closed" /\ trial.errored
    /\ Len(trial.resolves) = 2
    /\ trial.resolves[2].error = <<"err">>
    /\ trial.ret = trial.resolves[1]
    /\ trial.ret.error = <<"Failed to spawn process: ", "spawn node ENOENT">>

------------------------------------------------------------------------------
(* Termination.  A behaviour runs generateWithFallback calls, or one       *)
(* generateStyleReferenceGrid call.  The program takes its own steps, every *)
(* child process that was spawned closes or fails to spawn, every request  *)
(* that was issued gets a response or throws, and every timer fires.       *)

\* the three providers in discovery order, each with or without credential,
\* or all of them disabled
TerminatesProviderLists ==
    {[i \in 1..3 |-> MakeProvider(NameOrder[i], i, TRUE, r[i])] : r \in [1..3 -> BOOLEAN]}
    \cup {[i \in 1..3 |-> MakeProvider(NameOrder[i], i, FALSE, TRUE)]}

InitTerminates ==
    /\ \/ /\ config \in [providers : TerminatesProviderLists, defaultProvider : {"gemini"},
                         autoFallback : BOOLEAN]
          /\ grid = NoGrid
       \/ /\ config = [providers |-> <<>>, defaultProvider |-> "gemini",
                       autoFallback |-> TRUE]
          /\ grid = [NoGrid EXCEPT !.env = [GOOGLE_API_KEY |-> "google-key",
                                            GEMINI_API_KEY |-> Undefined],
                                   !.dirs = {OutputDir}, !.dirs0 = {OutputDir},
                                   !.files = EarlierFiles({OutputDir}),
                                   !.files0 = EarlierFiles({OutputDir})]
    /\ single = NoSingle
    /\ config0 = config
    /\ envProject = ""
    /\ healthCache = <<>>
    /\ now = 0
    /\ CallIdle /\ ChainIdle /\ RaceIdle /\ HealthIdle /\ UnitIdle /\ ShellIdle

\* which of the two operations the behaviour runs
RunsGrid == grid.env # NoEnv

\* the child process of the attempt in progress closes or fails to spawn
ProcessEnds ==
    \/ \E code \in ExitCodes : Close(code)
    \/ \E message \in SpawnMessages : SpawnError(message)

\* the steps generateStyleReferenceGrid takes by itself, timers included
GridProceeds == GridInvoke \/ Retried \/ GridCollect \/ Paced \/ GridFinish

\* a step of the program, and an answer of what it waits for
ProgramProceeds == TryProvider \/ GridProceeds
WorldAnswers == ProcessEnds \/ Respond

NextTerminates ==
    \/ ~RunsGrid /\ \E req \in Requests : Call(req)
    \/ RunsGrid /\ GridCall
    \/ ProgramProceeds
    \/ WorldAnswers

SpecTerminates ==
    /\ InitTerminates
    /\ [][NextTerminates]_vars
    /\ WF_vars(ProgramProceeds)
    /\ WF_vars(WorldAnswers)

\* no provider was health-checked twice by the call
NoRepeat(s) == \A j, k \in 1..Len(s) : s[j] = s[k] => j = k

\* the number of generateSingleImage calls made by the run
Invocations ==
    Cardinality({j \in 1..Len(grid.events) : grid.events[j].e = "invoke"})

\* the generateWithFallback call is under way
CallRunning == pc \in {"attempt", "running"}

\* the generateStyleReferenceGrid call is under way
GridRunning == grid.pc \notin {"idle", "done"}

ChainExhausted ==
    /\ pc = "done"
    /\ Len(checked) = 3 /\ Len(spawned) = 3
    /\ ~ret.success

------------------------------------------------------------------------------
(* StyleReferenceManager (src/src/style-reference-manager.ts) on one       *)
(* template directory.  File names are token sequences; an optional value  *)
(* (a file that may be missing, a result that may be null) is the empty    *)
(* sequence or a sequence of one element.                                  *)

MaxStyleCalls == 3      \* StyleReferenceManager calls per behaviour

TemplateName == "pickleball/coaching"

\* white space as String.prototype.trim removes it
Blank == {" ", "\n"}

RECURSIVE TrimStart(_)
TrimStart(s) == IF s # <<>> /\ s[1] \in Blank THEN TrimStart(Tail(s)) ELSE s

RECURSIVE TrimEnd(_)
TrimEnd(s) ==
    IF s # <<>> /\ s[Len(s)] \in Blank THEN TrimEnd(SubSeq(s, 1, Len(s) - 1)) ELSE s

\* mutant: the marker is returned as it was read
TrimNothing(s) == s

\* String.prototype.trim
Trim(s) == TrimEnd(TrimStart(s))

\* filename.endsWith('.png')
EndsWithPng(filename) == filename # <<>> /\ filename[Len(filename)] = ".png"

\* mutant: the name is tried as it was given only
WithPngNever(filename) == filename

\* line 71
WithPng(filename) == IF EndsWithPng(filename) THEN filename ELSE filename \o <<".png">>

\* /\.(png|jpe?g)$/i.test(f), line 94
IsImage(f) == f # <<>> /\ f[Len(f)] \in {".png", ".jpg", ".jpeg", ".PNG"}

\* fs.existsSync(path.join(refsDir, filename)): the path of the empty name
\* is the directory itself
ExistsInRefs(st, filename) == st.hasRefs /\ (filename = <<>> \/ filename \in st.refs)

\* getTemplateDir, lines 267-273: what it throws (nothing when the directory
\* exists)
getTemplateDir(st) ==
    IF st.exists THEN NoText ELSE <<"Template not found: ", TemplateName>>

\* getActiveReference, lines 49-57: the filename or null
getActiveReference(st) ==
    IF st.marker # Absent /\ Trim(st.marker[1]) # <<>> THEN Some(Trim(st.marker[1]))
    ELSE Absent

\* setActiveReference, lines 62-79: the marker it leaves and what it throws
setActiveReference(st, filename) ==
    IF getTemplateDir(st) # NoText
    THEN [marker |-> st.marker, threw |-> getTemplateDir(st)]
    ELSE IF ExistsInRefs(st, filename)
    THEN [marker |-> Some(filename), threw |-> NoText]
    ELSE IF ExistsInRefs(st, WithPng(filename))
    THEN [marker |-> Some(WithPng(filename)), threw |-> NoText]
    ELSE [marker |-> st.marker, threw |-> <<"Style reference not found: ">> \o filename]

\* listStyleReferences, lines 84-110: filename and isActive of every entry
listStyleReferences(st) ==
    IF ~st.hasRefs THEN {}
    ELSE {[filename |-> f, isActive |-> Some(f) = getActiveReference(st)] :
             f \in {g \in st.refs : IsImage(g)}}

\* the files a style-references directory can hold
StyleFiles ==
    {<<"a", ".png">>, <<"a">>, <<"b", ".png">>, <<" ", "c", ".png">>, <<"d", ".jpg">>}

\* the names passed to setActiveReference
StyleArgs == StyleFiles \cup {<<"b">>, <<"zz">>, <<" ", "c">>, <<>>}

\* the marker file before the first call: missing, written by an earlier
\* call, written by an editor (with a final newline), or empty
StyleMarkers == {Absent, Some(<<"a", ".png">>), Some(<<"b", ".png", "\n">>), Some(<<>>)}

InitStyle ==
    /\ style \in {[NoStyle EXCEPT !.exists = e, !.hasRefs = h, !.refs = r, !.marker = m] :
                     e \in BOOLEAN, h \in BOOLEAN, r \in SUBSET StyleFiles,
                     m \in StyleMarkers}
    /\ style.hasRefs => style.exists
    /\ ~style.hasRefs => style.refs = {}
    /\ ~style.exists => style.marker = Absent
    /\ orch = NoOrch
    /\ config = [providers |-> <<>>, defaultProvider |-> "gemini", autoFallback |-> TRUE]
    /\ config0 = config
    /\ envProject = ""
    /\ healthCache = <<>>
    /\ now = 0
    /\ CallIdle /\ ChainIdle /\ RaceIdle /\ HealthIdle /\ NanoIdle /\ UnitIdle

styleFrame == <<config, envProject, healthCache, now, config0, callVars, chainVars, tasks,
                healthOp, single, grid, unitVars, orch>>

\* the call that is made: its operation, its argument, the marker it found
StyleOp(op, arg) ==
    [style EXCEPT !.op = op, !.arg = arg, !.before = style.marker, !.threw = NoText,
                  !.ret = Absent, !.list = {}, !.calls = @ + 1]

SetActiveReference(filename) ==
    /\ style.pc = "idle" /\ style.calls < MaxStyleCalls
    /\ LET r == setActiveReference(style, filename)
       IN  style' = [StyleOp("setActiveReference", filename) EXCEPT
                        !.marker = r.marker, !.threw = r.threw]
    /\ UNCHANGED styleFrame

GetActiveReference ==
    /\ style.pc = "idle" /\ style.calls < MaxStyleCalls
    /\ style' = [StyleOp("getActiveReference", NoText) EXCEPT
                    !.threw = getTemplateDir(style),
                    !.ret = IF getTemplateDir(style) # NoText THEN Absent
                            ELSE getActiveReference(style)]
    /\ UNCHANGED styleFrame

ListStyleReferences ==
    /\ style.pc = "idle" /\ style.calls < MaxStyleCalls
    /\ style' = [StyleOp("listStyleReferences", NoText) EXCEPT
                    !.threw = getTemplateDir(style),
                    !.list = IF getTemplateDir(style) # NoText THEN {}
                             ELSE listStyleReferences(style)]
    /\ UNCHANGED styleFrame

NextStyle ==
    \/ \E filename \in StyleArgs : SetActiveReference(filename)
    \/ GetActiveReference
    \/ ListStyleReferences

SpecStyle == InitStyle /\ [][NextStyle]_vars

\* a file of that name is in the style-references directory
FileInRefs(f) == style.hasRefs /\ f \in style.refs

\* the references the last listing marked as active
ActiveListed == {r \in style.list : r.isActive}

\* what the claim says of a setActiveReference call that has returned or thrown
SetActiveAsStated ==
    LET f == style.arg
    IN  /\ IF style.exists /\ FileInRefs(f)
           THEN style.threw = NoText /\ style.marker = Some(f)
           ELSE IF style.exists /\ FileInRefs(f \o <<".png">>)
           THEN style.threw = NoText /\ style.marker = Some(f \o <<".png">>)
           ELSE style.threw # NoText /\ style.marker = style.before
        /\ style.threw = NoText => getActiveReference(style) = style.marker

Plain(f) == f # <<>> /\ Trim(f) = f

EmptyNameStored ==
    /\ style.op = "setActiveReference" /\ style.arg = <<>>
    /\ style.threw = NoText
    /\ style.marker = Some(<<>>)
    /\ getActiveReference(style) = Absent

\* a file whose name starts with a blank was set: the marker holds the name,
\* getActiveReference gives it without the blank, and the listing marks no
\* reference as active
PaddedNameStored ==
    /\ style.op = "listStyleReferences"
    /\ style.marker = Some(<<" ", "c", ".png">>)
    /\ getActiveReference(style) = Some(<<"c", ".png">>)
    /\ style.list # {} /\ ActiveListed = {}

------------------------------------------------------------------------------
(* StyleReferenceManager.generateStyleReference (lines 149-220): the call  *)
(* runs generateStyleReferenceGrid on the style-references directory of    *)
(* the template (OutputDir) with options.name (BaseName).                  *)

\* isGenerationAvailable (nano-banana-generator.ts, lines 287-291): the reason
\* why generation is not available, no text when it is
isGenerationAvailable(env) ==
    IF getApiKey(env) = Undefined THEN <<"No API key. Set GOOGLE_API_KEY.">> ELSE NoText

\* the entries of the style-references directory
FileNames(files) == {SubSeq(p, 3, Len(p)) : p \in files}

\* Array.prototype.join('; ')
RECURSIVE Join(_)
Join(texts) ==
    IF texts = <<>> THEN NoText
    ELSE IF Len(texts) = 1 THEN texts[1]
    ELSE texts[1] \o <<"; ">> \o Join(Tail(texts))

\* what generateStyleReference returns
NoReference == [success |-> FALSE, path |-> NoText, individualPaths |-> <<>>, error |-> NoText]

\* mutant: the new grid is made the active reference whatever the pipeline
\* returned
PipelineReturned(res) == TRUE

\* result.success && result.gridPath, line 200
PipelineSucceeded(res) ==
    res.success /\ "gridPath" \in res.has /\ res.gridPath # NoText

\* result.errors?.join('; ') || 'Generation failed', line 214
PipelineError(res) ==
    IF "errors" \in res.has /\ Join(res.errors) # NoText THEN Join(res.errors)
    ELSE <<"Generation failed">>

\* the template directory as the call finds it, with the style-references
\* directory as the pipeline left it
Refreshed(st, g) ==
    [st EXCEPT !.hasRefs = OutputDir \in g.dirs, !.refs = FileNames(g.files)]

\* the template does not exist; or it exists without style-references
\* directory and marker; or it has references of an earlier run, one of
\* which is the active one
InitGenerate ==
    /\ \E env \in {[GOOGLE_API_KEY |-> Undefined, GEMINI_API_KEY |-> Undefined],
                   [GOOGLE_API_KEY |-> "", GEMINI_API_KEY |-> "gemini-key"]} :
       \E e \in BOOLEAN, d \in {{}, {OutputDir}} :
          /\ d # {} => e
          /\ grid = [NoGrid EXCEPT !.env = env, !.dirs = d, !.dirs0 = d,
                                   !.files = EarlierFiles(d), !.files0 = EarlierFiles(d)]
          /\ style = [NoStyle EXCEPT
                        !.exists = e,
                        !.hasRefs = d # {},
                        !.refs = FileNames(EarlierFiles(d)),
                        !.marker = IF d = {} THEN Absent ELSE Some(<<"other.png">>)]
    /\ single = NoSingle
    /\ orch = NoOrch
    /\ config = [providers |-> <<>>, defaultProvider |-> "gemini", autoFallback |-> TRUE]
    /\ config0 = config
    /\ envProject = ""
    /\ healthCache = <<>>
    /\ now = 0
    /\ CallIdle /\ ChainIdle /\ RaceIdle /\ HealthIdle /\ UnitIdle

generateFrame == <<config, envProject, healthCache, now, config0, callVars, chainVars,
                   tasks, healthOp, unitVars, orch>>

\* generateStyleReference is called: lines 154-198, up to the first await of
\* generateStyleReferenceGrid
StyleGenerate ==
    /\ style.pc = "idle" /\ style.calls = 0
    /\ grid.pc = "idle"
    /\ LET op == StyleOp("generateStyleReference", <<BaseName>>)
           reason == isGenerationAvailable(grid.env)
       IN  IF reason # NoText
           THEN /\ style' = [op EXCEPT !.pc = "returned",
                                       !.ret = Some([NoReference EXCEPT !.error = reason])]
                /\ grid' = grid
           ELSE IF getTemplateDir(style) # NoText
           THEN /\ style' = [op EXCEPT !.pc = "threw", !.threw = getTemplateDir(style)]
                /\ grid' = grid
           ELSE /\ style' = [op EXCEPT !.pc = "generating", !.hasRefs = TRUE]
                /\ grid' = Called(grid)
    /\ UNCHANGED <<single, generateFrame>>

\* generateStyleReferenceGrid has returned: lines 200-216
StyleFinish ==
    /\ style.pc = "generating"
    /\ grid.pc = "done"
    /\ LET st == Refreshed(style, grid)
       IN  IF PipelineSucceeded(grid.ret)
           THEN LET r == setActiveReference(st, <<BaseName, ".png">>)
                IN  style' = IF r.threw # NoText
                             THEN [st EXCEPT !.pc = "threw", !.threw = r.threw]
                             ELSE [st EXCEPT
                                     !.pc = "returned",
                                     !.marker = r.marker,
                                     !.ret = Some([NoReference EXCEPT
                                                !.success = TRUE,
                                                !.path = grid.ret.gridPath,
                                                !.individualPaths =
                                                    grid.ret.individualPaths])]
           ELSE style' = [st EXCEPT
                            !.pc = "returned",
                            !.ret = Some([NoReference EXCEPT
                                            !.error = PipelineError(grid.ret)])]
    /\ UNCHANGED <<grid, single, generateFrame>>

NextGenerate ==
    \/ StyleGenerate
    \/ GridProceeds
    \/ Respond
    \/ StyleFinish

SpecGenerate == InitGenerate /\ [][NextGenerate]_vars

\* the pipeline was run and returned success with a grid path
PipelineSuccess ==
    grid.pc = "done" /\ grid.ret.success /\ grid.ret.gridPath = GridPath

(* C38: StyleReferenceManager.generateStyleReference changes the           *)
(* template's active-reference marker only on success: when the pipeline   *)
(* returns success with a grid path the marker becomes '{name}.png' and    *)
(* the call returns success with that grid path; when generation is        *)
(* unavailable or the pipeline fails the marker keeps its previous value   *)
(* and the call returns success = false with a non-empty error.            *)
C38_MarkerChangesOnlyOnSuccess ==
    /\ style.pc \in {"generating", "threw"} => style.marker = style.before
    /\ style.pc = "returned" =>
          IF PipelineSuccess
          THEN /\ style.marker = Some(<<BaseName, ".png">>)
               /\ style.ret[1].success
               /\ style.ret[1].path = GridPath
               /\ GridPath \in grid.files
          ELSE /\ style.marker = style.before
               /\ ~style.ret[1].success
               /\ style.ret[1].error # NoText
               /\ isGenerationAvailable(grid.env) # NoText <=> grid.pc = "idle"

\* one image of four was generated: the pipeline succeeded, and the marker
\* went from the earlier reference to the new grid
C38_Witness ==
    /\ style.pc = "returned"
    /\ PipelineSuccess
    /\ grid.ret.generatedCount = 1
    /\ style.before = Some(<<"other.png">>)
    /\ style.marker = Some(<<BaseName, ".png">>)
    /\ style.ret[1].success

\* all four images failed while the grid of an earlier run was on disk: the
\* marker was left alone and the errors were joined
PipelineFailedMarkerKept ==
    /\ style.pc = "returned"
    /\ grid.pc = "done" /\ ~grid.ret.success
    /\ GridPath \in grid.files
    /\ style.marker = Some(<<"other.png">>)
    /\ Len(style.ret[1].error) > 8

------------------------------------------------------------------------------
(* TemplateLoader: load and clearCache (src/unnamed/part_002, lines 382-411 *)
(* and 612-615).  A template is what loadFromDisk builds from the files of *)
(* its directory: the model keeps its name, a version standing for the     *)
(* content of config.json, and config.styleGridPath, which is present when *)
(* the style-references directory holds a grid image.  loadFromDisk        *)
(* returns null when the directory is missing and when reading it throws.  *)

MaxLoads == 3       \* load and clearCache calls per behaviour
ShortCacheTTL == 1000   \* a cacheTTL set in the configuration file

\* cacheTTL = 3600000, line 382 (and the default of ConfigLoader.load)
DefaultCacheTTL == 3600000

CacheTTLs == {DefaultCacheTTL, ShortCacheTTL}

TemplateNames == {"sports/illustrative", "sports/minimal"}

MakeTemplate(name, version, styleGridPath) ==
    [name |-> name, version |-> version, styleGridPath |-> styleGridPath]

GridOf(name) == <<name, "/style-references/grid.png">>

\* what a template directory can hold: nothing readable, a template with a
\* style grid, or an edited template without one
DiskTemplates(name) ==
    {Absent, Some(MakeTemplate(name, 1, Some(GridOf(name)))), Some(MakeTemplate(name, 2, Absent))}

Disks == {d \in [TemplateNames -> UNION {DiskTemplates(n) : n \in TemplateNames}] :
             \A n \in TemplateNames : d[n] \in DiskTemplates(n)}

\* the instants of the calls: they give cache entries of age 0, TTL - 1 and
\* TTL for both values of cacheTTL
LoaderInstants ==
    {0, ShortCacheTTL - 1, ShortCacheTTL, DefaultCacheTTL - 1, DefaultCacheTTL}

\* mutant: an entry as old as cacheTTL still counts
TemplateFreshInclusive(cache, name, t, ttl) ==
    /\ name \in DOMAIN cache
    /\ t - cache[name].loadedAt <= ttl

\* cached && Date.now() - cached.loadedAt < this.cacheTTL, lines 394-395
TemplateFresh(cache, name, t, ttl) ==
    /\ name \in DOMAIN cache
    /\ t - cache[name].loadedAt < ttl

\* loadFromDisk(templateName), lines 414-477: null is Absent
loadFromDisk(disk, name) == IF name \in DOMAIN disk THEN disk[name] ELSE Absent

\* mutant: a template that was not found is remembered as such
StoreFound(cache, name, template, t) ==
    CacheSet(cache, name, [template |-> template, loadedAt |-> t])

\* load(templateName), lines 392-411: what it returns, the cache it leaves
\* and the directories it read
load(ld, name, t) ==
    IF TemplateFresh(ld.cache, name, t, ld.cacheTTL)
    THEN [template |-> Some(ld.cache[name].template), cache |-> ld.cache, reads |-> <<>>]
    ELSE LET template == loadFromDisk(ld.disk, name)
         IN  IF template = Absent
             THEN [template |-> Absent, cache |-> ld.cache, reads |-> <<name>>]
             ELSE [template |-> template,
                   cache |-> StoreFound(ld.cache, name, template[1], t),
                   reads |-> <<name>>]

\* clearCache(), lines 612-615
clearCache(ld) == [ld EXCEPT !.cache = <<>>]

\* new TemplateLoader(repositoryPath, cacheTTL), lines 382-388
NewTemplateLoader(ld, cacheTTL) == [ld EXCEPT !.cache = <<>>, !.cacheTTL = cacheTTL]

InitLoader ==
    /\ \E ttl \in CacheTTLs, d \in Disks :
          orch = [NewTemplateLoader(NoOrch, ttl) EXCEPT !.disk = d, !.initialized = TRUE]
    /\ now = 0
    /\ config = [providers |-> <<>>, defaultProvider |-> "gemini", autoFallback |-> TRUE]
    /\ config0 = config
    /\ envProject = ""
    /\ healthCache = <<>>
    /\ CallIdle /\ ChainIdle /\ RaceIdle /\ HealthIdle /\ NanoIdle /\ UnitIdle
    /\ style = NoStyle

loaderFrame == <<config, envProject, healthCache, config0, callVars, chainVars, tasks,
                 healthOp, single, grid, unitVars, style>>

\* time passes between two calls
Wait(t) ==
    /\ t \in LoaderInstants
    /\ t > now
    /\ now' = t
    /\ UNCHANGED <<orch, loaderFrame>>

\* templateLoader.load(name)
Load(name) ==
    /\ orch.calls < MaxLoads
    /\ LET l == load(orch, name, now)
       IN  orch' = [orch EXCEPT !.cache = l.cache, !.reads = l.reads, !.op = "load",
                                !.name = name, !.at = now, !.before = orch.cache,
                                !.ret = l.template, !.afterClear = name \in orch.pending,
                                !.pending = orch.pending \ {name},
                                !.calls = orch.calls + 1]
    /\ UNCHANGED <<now, loaderFrame>>

\* templateLoader.clearCache()
ClearCache ==
    /\ orch.calls < MaxLoads
    /\ orch' = [clearCache(orch) EXCEPT !.reads = <<>>, !.op = "clearCache", !.name = "",
                                        !.at = now, !.before = orch.cache, !.ret = Absent,
                                        !.afterClear = FALSE, !.pending = TemplateNames,
                                        !.calls = orch.calls + 1]
    /\ UNCHANGED <<now, loaderFrame>>

\* somebody edits, adds or removes a template directory
EditTemplate(name, template) ==
    /\ orch.disk[name] # template
    /\ orch' = [orch EXCEPT !.disk[name] = template, !.op = "edit", !.name = name]
    /\ UNCHANGED <<now, loaderFrame>>

NextLoader ==
    \/ \E t \in LoaderInstants : Wait(t)
    \/ \E name \in TemplateNames : Load(name)
    \/ ClearCache
    \/ \E name \in TemplateNames : \E template \in DiskTemplates(name) : EditTemplate(name, template)

SpecLoader == InitLoader /\ [][NextLoader]_vars

\* the cache entry of the last load was younger than cacheTTL
LoadFoundFresh ==
    /\ orch.name \in DOMAIN orch.before
    /\ orch.at - orch.before[orch.name].loadedAt < orch.cacheTTL

ExpiredEntryReloaded ==
    /\ orch.op = "load"
    /\ orch.name \in DOMAIN orch.before
    /\ orch.at - orch.before[orch.name].loadedAt = orch.cacheTTL
    /\ orch.reads = <<orch.name>>

\* a template that was not found is looked for on disk again at once
NotFoundRetried ==
    /\ orch.op = "load" /\ orch.ret = Absent /\ orch.calls = 2
    /\ orch.name \notin DOMAIN orch.before
    /\ orch.at = 0

\* the first load after clearCache reads the disk although the entry
\* that was cleared would still have been fresh
ClearedEntryReloaded ==
    /\ orch.op = "load" /\ orch.afterClear /\ orch.calls = 3 /\ orch.at = 0
    /\ orch.ret # Absent

------------------------------------------------------------------------------
(* ImageOrchestrator (src/src/orchestrator.ts) with its ConfigLoader,       *)
(* TemplateLoader and ProviderManager.  The configuration is built from the *)
(* configuration file (autoFallback and cacheTTL) and the providers         *)
(* discovered from the environment; the file can be edited while the        *)
(* program runs.  generateImage, getProviderHealth and reloadConfig are     *)
(* called one after the other; clearCaches is synchronous and can be called *)
(* while generateImage waits for a provider.  Requests name no provider and *)
(* no model.                                                                *)

MaxOrchCalls == 3       \* orchestrator calls per behaviour

\* the environment sets no provider variable, the one of gemini, or those of
\* vertexai and openrouter
OrchEnvs ==
    {[GOOGLE_API_KEY |-> "", GOOGLE_CLOUD_PROJECT |-> "", OPENROUTER_API_KEY |-> ""],
     [GOOGLE_API_KEY |-> "key", GOOGLE_CLOUD_PROJECT |-> "", OPENROUTER_API_KEY |-> ""],
     [GOOGLE_API_KEY |-> "", GOOGLE_CLOUD_PROJECT |-> "project", OPENROUTER_API_KEY |-> "key"]}

\* the configuration file sets nothing, or disables autoFallback and
\* shortens cacheTTL
ConfigFiles ==
    {[autoFallback |-> TRUE, cacheTTL |-> Absent],
     [autoFallback |-> FALSE, cacheTTL |-> Some(ShortCacheTTL)]}

\* the templates directory: one template with a style grid, one without
OrchDisk ==
    [n \in TemplateNames |->
        IF n = "sports/illustrative" THEN Some(MakeTemplate(n, 1, Some(GridOf(n))))
        ELSE Some(MakeTemplate(n, 1, Absent))]

MissingTemplate == "sports/missing"

OwnGrid == <<"own-grid.png">>

\* requests that name a template with a style grid or a missing template,
\* with and without a style grid of their own, and one that names nothing
ImageRequests ==
    {NoImageRequest} \cup
    [template : {Some("sports/illustrative"), Some(MissingTemplate)},
     styleGridPath : {Absent, Some(OwnGrid)},
     provider : {Undefined},
     model : {Undefined}]

\* the GlobalConfig an orchestrator holds before initialize
NoConfig ==
    [providers |-> <<>>, defaultProvider |-> "gemini", autoFallback |-> TRUE,
     cacheTTL |-> DefaultCacheTTL]

\* ConfigLoader.load without a cached configuration, part_002 lines 60-88
BuildConfig(file, env) ==
    LET providers == discoverProvidersFromEnv(env)
    IN  [providers |-> providers,
         defaultProvider |->
             IF Len(providers) > 0 /\ \A i \in 1..Len(providers) : providers[i].name # "gemini"
             THEN providers[1].name ELSE "gemini",
         autoFallback |-> file.autoFallback,
         cacheTTL |-> IF file.cacheTTL = Absent THEN DefaultCacheTTL ELSE file.cacheTTL[1]]

\* ConfigLoader.load, part_002 lines 56-89: the configuration and the loader
ConfigLoad(o) ==
    IF o.cachedConfig # Absent
    THEN [config |-> o.cachedConfig[1], o |-> o]
    ELSE [config |-> BuildConfig(o.file, o.env),
          o |-> [o EXCEPT !.cachedConfig = Some(BuildConfig(o.file, o.env))]]

\* mutant: reload returns the configuration that was loaded first
ConfigReloadCached(o) == ConfigLoad(o)

\* ConfigLoader.reload, part_002 lines 269-272
ConfigReload(o) == ConfigLoad([o EXCEPT !.cachedConfig = Absent])

\* mutant: the new ProviderManager inherits the health records
KeepProviderManager(cache) == cache

\* new ProviderManager(repositoryPath), provider-manager.ts lines 27-30
NewProviderManager(cache) == <<>>

\* the components built from a loaded configuration, lines 46-55 and 255-260
Components(l, cache) ==
    [o |-> [NewTemplateLoader(l.o, l.config.cacheTTL) EXCEPT !.initialized = TRUE],
     config |-> l.config,
     healthCache |-> NewProviderManager(cache)]

\* initialize, lines 38-57
initialize(o, cache) == Components(ConfigLoad(o), cache)

\* ensureInitialized, lines 62-66
ensureInitialized(o, cfg, cache) ==
    IF ~o.initialized THEN initialize(o, cache)
    ELSE [o |-> o, config |-> cfg, healthCache |-> cache]

\* mutant: the template's style grid replaces the one of the request
MergeStyleGridAlways(req, template) ==
    IF template.styleGridPath # Absent
    THEN [req EXCEPT !.styleGridPath = template.styleGridPath]
    ELSE req

\* lines 90-92
MergeStyleGrid(req, template) ==
    IF template.styleGridPath # Absent /\ req.styleGridPath = Absent
    THEN [req EXCEPT !.styleGridPath = template.styleGridPath]
    ELSE req

\* lines 83-86
TemplateNotFound(name) == [NoResult EXCEPT !.error = <<"Template not found: ", name>>]

\* tryProvider, provider-manager.ts lines 118-121: the --style-grid argument
StyleGridArgs(req) ==
    IF req.styleGridPath # Absent THEN <<"--style-grid", req.styleGridPath[1]>> ELSE <<>>

\* the request as generateWithFallback reads it
ProviderRequest(req) == [provider |-> req.provider, model |-> req.model]

InitOrch ==
    /\ \E env \in OrchEnvs, file \in ConfigFiles :
          /\ orch = [NoOrch EXCEPT !.env = env, !.file = file, !.disk = OrchDisk]
          /\ envProject = env.GOOGLE_CLOUD_PROJECT
    /\ config = NoConfig
    /\ config0 = config
    /\ healthCache = <<>>
    /\ now = 0
    /\ CallIdle /\ ChainIdle /\ RaceIdle /\ HealthIdle /\ NanoIdle /\ UnitIdle
    /\ style = NoStyle

orchFrame == <<envProject, config0, chainVars, tasks, healthOp, single, grid, unitVars,
               style>>

\* the health checks made so far
HealthMark == <<calls, Len(checked)>>

\* the last call emptied the health cache and no provider was checked since
JustCleared ==
    /\ orch.op \in {"clearCaches", "reloadConfig"}
    /\ orch.msg # "Components not initialized"
    /\ orch.mark = HealthMark

\* generateImage(request) up to its first return or to the await of
\* generateWithFallback, lines 71-103
GenerateImage(req) ==
    /\ orch.pc = "idle"
    /\ orch.calls < MaxOrchCalls
    /\ LET w == ensureInitialized(orch, config, healthCache)
           named == req.template # Absent
           l == IF named THEN load(w.o, req.template[1], now)
                ELSE [template |-> Absent, cache |-> w.o.cache, reads |-> <<>>]
           o == [w.o EXCEPT !.cache = l.cache, !.reads = l.reads, !.ret = l.template,
                            !.op = "generateImage", !.arg = req, !.at = now,
                            !.name = IF named THEN req.template[1] ELSE "",
                            !.before = w.o.cache, !.healthBefore = w.healthCache,
                            !.started = calls, !.afterClearing = FALSE,
                            !.calls = orch.calls + 1]
       IN  /\ healthCache' = w.healthCache
           /\ IF named /\ l.template = Absent
              THEN /\ orch' = [o EXCEPT !.req = req,
                                        !.res = TemplateNotFound(req.template[1])]
                   /\ config' = w.config
                   /\ UNCHANGED callVars
              ELSE LET passed == IF named THEN MergeStyleGrid(req, l.template[1]) ELSE req
                   IN  /\ orch' = [o EXCEPT !.req = passed, !.res = NoResult,
                                            !.pc = "generating"]
                       /\ Start(ProviderRequest(passed), w.config)
    /\ UNCHANGED <<now, orchFrame>>

\* generateWithFallback settled: generateImage returns, lines 103-112
GenerateReturn ==
    /\ orch.pc = "generating"
    /\ pc \in {"done", "threw"}
    /\ orch' = [orch EXCEPT !.pc = "idle", !.res = ret]
    /\ UNCHANGED <<config, healthCache, now, callVars, orchFrame>>

\* getProviderHealth, lines 157-180
GetProviderHealth ==
    /\ orch.pc = "idle"
    /\ orch.calls < MaxOrchCalls
    /\ LET w == ensureInitialized(orch, config, healthCache)
           st == getHealthStatus(w.config, w.healthCache, now, envProject)
       IN  /\ config' = w.config
           /\ healthCache' = st.cache
           /\ orch' = [w.o EXCEPT !.op = "getProviderHealth", !.list = st.list, !.at = now,
                                  !.healthBefore = w.healthCache,
                                  !.afterClearing = JustCleared,
                                  !.calls = orch.calls + 1]
    /\ UNCHANGED <<now, callVars, orchFrame>>

\* clearCaches, lines 237-245
ClearCaches ==
    /\ orch.calls < MaxOrchCalls
    /\ IF ~orch.initialized
       THEN /\ orch' = [orch EXCEPT !.op = "clearCaches", !.at = now,
                                    !.msg = "Components not initialized",
                                    !.calls = orch.calls + 1]
            /\ UNCHANGED healthCache
       ELSE /\ orch' = [clearCache(orch) EXCEPT !.op = "clearCaches", !.at = now,
                                                !.msg = "All caches cleared",
                                                !.pending = TemplateNames,
                                                !.discarded = healthCache,
                                                !.healthBefore = healthCache,
                                                !.mark = HealthMark,
                                                !.calls = orch.calls + 1]
            /\ healthCache' = <<>>
    /\ UNCHANGED <<config, now, callVars, orchFrame>>

\* reloadConfig, lines 250-264
ReloadConfig ==
    /\ orch.pc = "idle"
    /\ orch.calls < MaxOrchCalls
    /\ LET w == Components(ConfigReload(orch), healthCache)
       IN  /\ config' = w.config
           /\ healthCache' = w.healthCache
           /\ orch' = [w.o EXCEPT !.op = "reloadConfig", !.at = now,
                                  !.msg = "Configuration reloaded",
                                  !.before = orch.cache,
                                  !.pending = TemplateNames,
                                  !.discarded = healthCache,
                                  !.healthBefore = healthCache,
                                  !.mark = HealthMark,
                                  !.calls = orch.calls + 1]
    /\ UNCHANGED <<now, callVars, orchFrame>>

\* somebody edits the configuration file
EditConfigFile(file) ==
    /\ orch.pc = "idle"
    /\ orch.file # file
    /\ orch.op # "edit"
    /\ orch' = [orch EXCEPT !.file = file, !.op = "edit"]
    /\ UNCHANGED <<config, healthCache, now, callVars, orchFrame>>

\* time passes between two calls
OrchWait ==
    /\ orch.pc = "idle"
    /\ Wait(ShortCacheTTL)

NextOrch ==
    \/ \E req \in ImageRequests : GenerateImage(req)
    \/ TryProvider
    \/ \E code \in ExitCodes : Close(code)
    \/ GenerateReturn
    \/ GetProviderHealth
    \/ ClearCaches
    \/ ReloadConfig
    \/ \E file \in ConfigFiles : EditConfigFile(file)
    \/ OrchWait

SpecOrch == InitOrch /\ [][NextOrch]_vars

\* C32: calling clearCaches or reloadConfig on the orchestrator discards
\* every cached health record: until a provider is checked again the health
\* cache is empty, so the health checks that follow compute every record
\* anew from the current configuration (lastChecked is the time of the check)
\* even when the last check was less than 5 minutes earlier; reloadConfig
\* also replaces the cached configuration by one built from the file as it is
\* now and starts with an empty template cache.
C32_ClearingDiscardsHealthRecords ==
    /\ JustCleared => healthCache = <<>>
    /\ orch.op = "getProviderHealth" /\ orch.afterClearing =>
          /\ Len(orch.list) = Len(config.providers)
          /\ \A i \in 1..Len(orch.list) :
                orch.list[i] = ComputeHealth(config.providers[i], orch.at, envProject)
    /\ orch.op = "reloadConfig" =>
          /\ config = BuildConfig(orch.file, orch.env)
          /\ orch.cachedConfig = Some(config)
          /\ orch.cache = <<>>
          /\ orch.cacheTTL = config.cacheTTL

\* getProviderHealth right after reloadConfig computes the records again
\* although the discarded ones were less than 5 minutes old
C32_Witness ==
    /\ orch.op = "getProviderHealth"
    /\ orch.afterClearing
    /\ orch.msg = "Configuration reloaded"
    /\ Len(orch.list) = 2
    /\ \A i \in 1..2 :
          /\ orch.list[i].provider \in DOMAIN orch.discarded
          /\ orch.at - orch.discarded[orch.list[i].provider].lastChecked < healthCheckTTL
          /\ orch.list[i].lastChecked = orch.at
          /\ orch.list[i].lastChecked # orch.discarded[orch.list[i].provider].lastChecked

\* the same after clearCaches, called while generateImage waits for a provider
ClearedWhileGenerating ==
    /\ orch.op = "clearCaches"
    /\ orch.pc = "generating"
    /\ orch.discarded # <<>>
    /\ healthCache # <<>>
    /\ \A n \in DOMAIN healthCache : healthCache[n].lastChecked = now
    /\ \E n \in DOMAIN healthCache :
          /\ n \in DOMAIN orch.discarded
          /\ orch.discarded[n].lastChecked < now

\* reloadConfig picks up an edited file and drops a cached template
ReloadedEditedFile ==
    /\ orch.op = "reloadConfig"
    /\ orch.before # <<>>
    /\ orch.cacheTTL = ShortCacheTTL
    /\ ~config.autoFallback
    /\ orch.discarded # <<>>

\* clearCaches on an orchestrator that was never initialized does nothing
ClearedUninitialized ==
    /\ orch.op = "clearCaches"
    /\ orch.msg = "Components not initialized"
    /\ ~orch.initialized

\* the template named by the last generateImage call cannot be loaded
Unloadable ==
    /\ orch.arg.template # Absent
    /\ loadFromDisk(orch.disk, orch.arg.template[1]) = Absent

\* C40: generateImage with a template name that cannot be loaded returns
\* success = false with the error "Template not found: <name>" without
\* building a fallback chain, health-checking or attempting any provider;
\* when the template loads, the request passed to generateWithFallback
\* carries the template's style grid path only if the caller's request had
\* none, and its own path otherwise.
C40_MissingTemplateStopsGeneration ==
    orch.op = "generateImage" =>
        IF Unloadable
        THEN /\ orch.pc = "idle"
             /\ ~orch.res.success
             /\ orch.res.error = <<"Template not found: ", orch.arg.template[1]>>
             /\ calls = orch.started
             /\ healthCache = orch.healthBefore
             /\ pc \notin {"attempt", "running"}
        ELSE /\ calls = orch.started + 1
             /\ orch.req.styleGridPath =
                   IF orch.arg.styleGridPath # Absent THEN orch.arg.styleGridPath
                   ELSE IF orch.arg.template # Absent
                        THEN loadFromDisk(orch.disk, orch.arg.template[1])[1].styleGridPath
                        ELSE Absent
             /\ StyleGridArgs(orch.req) =
                   IF orch.req.styleGridPath = Absent THEN <<>>
                   ELSE <<"--style-grid", orch.req.styleGridPath[1]>>

\* after a generation that checked and spawned providers, a request for a
\* missing template returns at once
C40_Witness ==
    /\ orch.op = "generateImage"
    /\ Unloadable
    /\ orch.started = 1
    /\ spawned # <<>>
    /\ healthCache # <<>>
    /\ orch.res.error = <<"Template not found: ", MissingTemplate>>

\* a provider is spawned with the caller's style grid although the template
\* has one
OwnGridKept ==
    /\ orch.op = "generateImage"
    /\ orch.arg.styleGridPath = Some(OwnGrid)
    /\ orch.ret # Absent
    /\ orch.ret[1].styleGridPath # Absent
    /\ orch.req.styleGridPath = Some(OwnGrid)
    /\ spawned # <<>>

\* a provider is spawned with the style grid of the template
TemplateGridUsed ==
    /\ orch.op = "generateImage"
    /\ orch.arg.styleGridPath = Absent
    /\ StyleGridArgs(orch.req) = <<"--style-grid", GridOf("sports/illustrative")>>
    /\ Len(spawned) = 2

====
